---- MODULE Spec2Model ----
(***************************************************************************)
(* Notee: the editor reducer (src/state/editor-state.ts), the block and    *)
(* note factories (src/utils/block-factories.ts) and the list keymap       *)
(* (src/components/editor/tiptap/listKeymap.ts).                           *)
(*                                                                         *)
(* Conventions                                                             *)
(*  - a JavaScript array is a sequence; JavaScript indices are 0-based and *)
(*    are kept 0-based in action payloads (itemIndex, afterIndex); the     *)
(*    operators convert to the 1-based positions of sequences;             *)
(*  - an id is an opaque string; generateId() returns the k-th identifier  *)
(*    "g<k>" of a generator that never repeats; ids that arrive in action  *)
(*    payloads are written "x..", "n..", "i..";                            *)
(*  - null is the string Null, which no payload carries as an id;          *)
(*  - a span text is a sequence of one-character strings; title and body   *)
(*    are opaque strings;                                                  *)
(*  - an optional TextSpan flag that is absent is FALSE;                   *)
(*  - Date.now() is the input t of a step: a reading that is never smaller *)
(*    than the previous reading (clock).                                   *)
(***************************************************************************)
EXTENDS Integers, Sequences, FiniteSets, TLC

VARIABLES
    notes,          \* EditorState.notes
    activeNoteId,   \* EditorState.activeNoteId
    clock,          \* the latest reading of Date.now()
    idCount,        \* how many ids generateId() has returned
    steps,          \* how many input events were handled
    last,           \* the action dispatched last
    prev,           \* the EditorState that action was applied to
    sel,            \* keymap: what the handlers read of editor.state.selection.$from
    handled,        \* keymap: the key pressed last and what each handler did
    input,          \* codec: the argument a conversion is called with
    output,         \* codec: the conversion called last and what it returned
    storage,        \* app: what localStorage holds under STORAGE_KEY
    refs,           \* app: EditorProvider's refs hydrated and isFirstRender
    mounted,        \* app: whether the first render was committed
    rendered,       \* app: the EditorState the last render saw, and what is queued
    deleteTarget,   \* app: App's deleteTarget state
    pane,           \* app: the note NoteEditorPane's handlers and editor hold
    event,          \* app: the event handled last and what it did
    request         \* app: the latest delete request and whether it was answered

reducerVars == <<notes, activeNoteId, clock, idCount, steps, last, prev>>
keymapVars == <<sel, handled>>
codecVars == <<input, output>>
appVars == <<storage, refs, mounted, rendered, deleteTarget, pane, event, request>>
vars == <<notes, activeNoteId, clock, idCount, steps, last, prev, sel, handled,
          input, output, storage, refs, mounted, rendered, deleteTarget, pane,
          event, request>>

\* ------------------------------------------------------------------ bounds

\* The number of input events (each one handler run) in one run.
MaxSteps == 2
\* The largest reading of the clock.
MaxClock == 2
\* The largest depth of the selection's $from in the document tree.
MaxDepth == 5
\* The largest number of children of a node of the document tree.
MaxChildren == 2
\* The largest length of a text handed to the codec.
MaxText == 2

\* ------------------------------------------------------------- sequences

Min(a, b) == IF a < b THEN a ELSE b
Max(a, b) == IF a > b THEN a ELSE b

RECURSIVE SumTo(_, _)
\* counts[1] + ... + counts[k]
SumTo(counts, k) == IF k <= 0 THEN 0 ELSE SumTo(counts, k - 1) + counts[k]

\* Array.prototype.findIndex on the id field, as a position: 0 when no element matches.
findIndex(seq, id) ==
    IF \E i \in 1..Len(seq) : seq[i].id = id
    THEN CHOOSE i \in 1..Len(seq) :
            /\ seq[i].id = id
            /\ \A j \in 1..(i - 1) : seq[j].id # id
    ELSE 0

\* Array.prototype.splice(start, 0, x) with a 0-based start: a start beyond the
\* end is the end, a negative start counts from the end and stops at 0.
splice(seq, start, x) ==
    LET at == IF start < 0 THEN Max(Len(seq) + start, 0) ELSE Min(start, Len(seq))
    IN SubSeq(seq, 1, at) \o <<x>> \o SubSeq(seq, at + 1, Len(seq))

\* An empty slot of a sparse array, and the value undefined.
Hole == <<[hole |-> TRUE]>>
Undefined == <<[undefined |-> TRUE]>>

\* [...items]: the spread of a sparse array reads every hole as undefined.
spread(items) == [i \in 1..Len(items) |-> IF items[i] = Hole THEN Undefined ELSE items[i]]

\* items[index] = value on an array, index 0-based: an index beyond the end
\* leaves holes before it, a negative index sets a property and no element.
assignIndex(items, index, value) ==
    IF index < 0 THEN items
    ELSE [i \in 1..Max(Len(items), index + 1) |->
            IF i = index + 1 THEN value
            ELSE IF i <= Len(items) THEN items[i]
            ELSE Hole]

RECURSIVE filterIndex(_, _, _)
\* items.filter((_, i) => i !== index), from position k on: filter never
\* visits a hole, so holes are dropped as well.
filterIndex(items, index, k) ==
    IF k > Len(items) THEN <<>>
    ELSE (IF items[k] = Hole \/ k - 1 = index THEN <<>> ELSE <<items[k]>>)
            \o filterIndex(items, index, k + 1)

\* ------------------------------------------------------------- factories

Null == "<null>"

plainSpan(text) == [text |-> text, bold |-> FALSE, italic |-> FALSE, underline |-> FALSE]

emptyContent == <<plainSpan(<<>>)>>

\* A generator that repeats itself.
generateId_Repeats(k) == "g1"

\* The k-th identifier generateId() returns.
generateId(k) == "g" \o ToString(k)

createParagraphBlock(id) == [id |-> id, type |-> "paragraph", content |-> emptyContent]

createChecklistItem(id) == [id |-> id, checked |-> FALSE, content |-> emptyContent]

\* createNote() with the time of creation as the title.
createNote_DatedTitle(t, k) ==
    [id |-> generateId(k + 1), title |-> ToString(t), body |-> "<p></p>",
     blocks |-> <<createParagraphBlock(generateId(k + 2))>>,
     createdAt |-> t, updatedAt |-> t]

\* createNote() that leaves the body an empty string.
createNote_EmptyBody(t, k) ==
    [id |-> generateId(k + 1), title |-> "", body |-> "",
     blocks |-> <<createParagraphBlock(generateId(k + 2))>>,
     createdAt |-> t, updatedAt |-> t]

\* createNote() when generateId() has returned k ids: Date.now() is read once
\* (t), then the note's id is drawn, then the paragraph's.
createNote(t, k) ==
    [id |-> generateId(k + 1), title |-> "", body |-> "<p></p>",
     blocks |-> <<createParagraphBlock(generateId(k + 2))>>,
     createdAt |-> t, updatedAt |-> t]

\* ------------------------------------------------------ reducer helpers

\* touch that stamps createdAt as well.
touch_StampsBoth(note, t) == [note EXCEPT !.updatedAt = t, !.createdAt = t]

\* touch that forgets the stamp.
touch_NoStamp(note, t) == note

touch(note, t) == [note EXCEPT !.updatedAt = t]

\* notes.map(fn): fn called on every note, whatever its id.
mapNote_EveryNote(ns, noteId, applied) == [i \in 1..Len(ns) |-> applied[i]]

\* notes.map((n) => (n.id === noteId ? fn(n) : n)), where applied[i] is
\* fn(ns[i]).
mapNote(ns, noteId, applied) ==
    [i \in 1..Len(ns) |-> IF ns[i].id = noteId THEN applied[i] ELSE ns[i]]

\* blocks.map((b) => (b.id === blockId ? fn(b) : b)), where applied[i] is
\* fn(blocks[i]).
mapBlock(blocks, blockId, applied) ==
    [i \in 1..Len(blocks) |-> IF blocks[i].id = blockId THEN applied[i] ELSE blocks[i]]

\* How many ids a map over seq has drawn when it has visited the first i
\* elements, fn drawing counts[j] ids on seq[j]. The matching elements are
\* visited in order.
drawnBefore(seq, id, counts, i) ==
    SumTo([j \in 1..Len(seq) |-> IF seq[j].id = id THEN counts[j] ELSE 0], i)

\* Whether some note has the id: whether mapNote calls fn, and so reads the clock.
hasNote(ns, noteId) == \E i \in 1..Len(ns) : ns[i].id = noteId

\* ------------------------------------------------- the cases, per note

\* UPDATE_TITLE, UPDATE_BODY
UpdateTitleNote(n, a, t) == touch([n EXCEPT !.title = a.title], t)

UpdateBodyNote(n, a, t) == touch([n EXCEPT !.body = a.body], t)

\* ADD_BLOCK that inserts before the anchor instead of after it.
AddBlockNote_Before(n, a, t) ==
    LET idx == findIndex(n.blocks, a.afterBlockId)
        insertAt == IF idx > 0 THEN idx - 1 ELSE Len(n.blocks)
    IN touch([n EXCEPT !.blocks = splice(n.blocks, insertAt, a.block)], t)

\* ADD_BLOCK: after the first block with the id, or at the end.
AddBlockNote(n, a, t) ==
    LET idx == findIndex(n.blocks, a.afterBlockId)
        insertAt == IF idx > 0 THEN idx ELSE Len(n.blocks)
    IN touch([n EXCEPT !.blocks = splice(n.blocks, insertAt, a.block)], t)

\* REMOVE_BLOCK: createParagraphBlock() runs only when nothing is left.
RemoveBlockKept(n, a) == SelectSeq(n.blocks, LAMBDA b : b.id # a.blockId)

\* REMOVE_BLOCK that leaves the note empty.
RemoveBlockNote_NoPlaceholder(n, a, t, k) ==
    touch([n EXCEPT !.blocks = RemoveBlockKept(n, a)], t)

\* REMOVE_BLOCK that empties the removed block in place of substituting one.
RemoveBlockNote_InPlace(n, a, t, k) ==
    LET blocks == RemoveBlockKept(n, a)
    IN touch([n EXCEPT !.blocks =
                IF Len(blocks) > 0 THEN blocks
                ELSE <<createParagraphBlock(a.blockId)>>], t)

RemoveBlockNote(n, a, t, k) ==
    LET blocks == RemoveBlockKept(n, a)
    IN touch([n EXCEPT !.blocks =
                IF Len(blocks) > 0 THEN blocks
                ELSE <<createParagraphBlock(generateId(k + 1))>>], t)

RemoveBlockDraws(n, a) == IF Len(RemoveBlockKept(n, a)) > 0 THEN 0 ELSE 1

\* A merge in which the fields of the patch win throughout.
mergePatch_PatchWins(b, patch) ==
    [f \in (DOMAIN b) \cup (DOMAIN patch) |->
        IF f \in DOMAIN patch THEN patch[f] ELSE b[f]]

\* UPDATE_BLOCK: { ...b, ...patch, id: b.id, type: b.type }
mergePatch(b, patch) ==
    [f \in (DOMAIN b) \cup (DOMAIN patch) |->
        IF f \in {"id", "type"} THEN b[f]
        ELSE IF f \in DOMAIN patch THEN patch[f]
        ELSE b[f]]

UpdateBlockNote(n, a, t) ==
    touch([n EXCEPT !.blocks =
            mapBlock(n.blocks, a.blockId,
                     [j \in 1..Len(n.blocks) |-> mergePatch(n.blocks[j], a.patch)])], t)

\* REPLACE_BLOCK
ReplaceBlockNote(n, a, t) ==
    touch([n EXCEPT !.blocks =
            mapBlock(n.blocks, a.blockId, [j \in 1..Len(n.blocks) |-> a.block])], t)

\* MOVE_BLOCK: the note is returned as it is, untouched, when the block is
\* not found or the target is outside the array.
MoveBlockMoves(n, a) ==
    LET idx == findIndex(n.blocks, a.blockId)
        targetIdx == IF a.direction = "up" THEN idx - 1 ELSE idx + 1
    IN idx # 0 /\ targetIdx >= 1 /\ targetIdx <= Len(n.blocks)

\* MOVE_BLOCK that stamps the note also when the block stays where it is.
MoveBlockNote_StampsAtBoundary(n, a, t) ==
    LET idx == findIndex(n.blocks, a.blockId)
        targetIdx == IF a.direction = "up" THEN idx - 1 ELSE idx + 1
    IN IF idx = 0 THEN n
       ELSE IF targetIdx < 1 \/ targetIdx > Len(n.blocks) THEN touch(n, t)
       ELSE touch([n EXCEPT !.blocks =
                    [i \in 1..Len(n.blocks) |->
                        IF i = idx THEN n.blocks[targetIdx]
                        ELSE IF i = targetIdx THEN n.blocks[idx]
                        ELSE n.blocks[i]]], t)

\* MOVE_BLOCK that copies the block over its neighbour.
MoveBlockNote_Overwrites(n, a, t) ==
    LET idx == findIndex(n.blocks, a.blockId)
        targetIdx == IF a.direction = "up" THEN idx - 1 ELSE idx + 1
    IN IF idx = 0 THEN n
       ELSE IF targetIdx < 1 \/ targetIdx > Len(n.blocks) THEN n
       ELSE touch([n EXCEPT !.blocks =
                    [i \in 1..Len(n.blocks) |->
                        IF i = targetIdx THEN n.blocks[idx] ELSE n.blocks[i]]], t)

\* MOVE_BLOCK
MoveBlockNote(n, a, t) ==
    LET idx == findIndex(n.blocks, a.blockId)
        targetIdx == IF a.direction = "up" THEN idx - 1 ELSE idx + 1
    IN IF idx = 0 THEN n
       ELSE IF targetIdx < 1 \/ targetIdx > Len(n.blocks) THEN n
       ELSE touch([n EXCEPT !.blocks =
                    [i \in 1..Len(n.blocks) |->
                        IF i = idx THEN n.blocks[targetIdx]
                        ELSE IF i = targetIdx THEN n.blocks[idx]
                        ELSE n.blocks[i]]], t)

\* UPDATE_BLOCK_CONTENT that rebuilds the block from its id, type and content.
UpdateBlockContentBlock_Rebuilds(b, a) ==
    IF b.type = "paragraph" \/ b.type = "heading"
    THEN [id |-> b.id, type |-> b.type, content |-> a.content]
    ELSE b

\* UPDATE_BLOCK_CONTENT
UpdateBlockContentBlock(b, a) ==
    IF b.type = "paragraph" \/ b.type = "heading"
    THEN mergePatch(b, [content |-> a.content])
    ELSE b

UpdateBlockContentNote(n, a, t) ==
    touch([n EXCEPT !.blocks =
            mapBlock(n.blocks, a.blockId,
                     [j \in 1..Len(n.blocks) |-> UpdateBlockContentBlock(n.blocks[j], a)])], t)

\* UPDATE_LIST_ITEM
UpdateListItemBlock(b, a) ==
    IF b.type # "list" THEN b
    ELSE [b EXCEPT !.items = assignIndex(spread(b.items), a.itemIndex, a.content)]

UpdateListItemNote(n, a, t) ==
    touch([n EXCEPT !.blocks =
            mapBlock(n.blocks, a.blockId,
                     [j \in 1..Len(n.blocks) |-> UpdateListItemBlock(n.blocks[j], a)])], t)

\* ADD_LIST_ITEM
AddListItemBlock(b, a) ==
    IF b.type # "list" THEN b
    ELSE [b EXCEPT !.items = splice(spread(b.items), a.afterIndex + 1, emptyContent)]

AddListItemNote(n, a, t) ==
    touch([n EXCEPT !.blocks =
            mapBlock(n.blocks, a.blockId,
                     [j \in 1..Len(n.blocks) |-> AddListItemBlock(n.blocks[j], a)])], t)

\* REMOVE_LIST_ITEM without the placeholder.
RemoveListItemBlock_NoPlaceholder(b, a) ==
    IF b.type # "list" THEN b
    ELSE [b EXCEPT !.items = filterIndex(b.items, a.itemIndex, 1)]

\* REMOVE_LIST_ITEM
RemoveListItemBlock(b, a) ==
    IF b.type # "list" THEN b
    ELSE LET items == filterIndex(b.items, a.itemIndex, 1)
         IN [b EXCEPT !.items = IF Len(items) > 0 THEN items ELSE <<emptyContent>>]

RemoveListItemNote(n, a, t) ==
    touch([n EXCEPT !.blocks =
            mapBlock(n.blocks, a.blockId,
                     [j \in 1..Len(n.blocks) |-> RemoveListItemBlock(n.blocks[j], a)])], t)

\* TOGGLE_CHECKLIST_ITEM that checks the item instead of flipping it.
ToggleChecklistItemBlock_Checks(b, a) ==
    IF b.type # "checklist" THEN b
    ELSE [b EXCEPT !.items =
            [i \in 1..Len(b.items) |->
                IF b.items[i].id = a.itemId
                THEN [b.items[i] EXCEPT !.checked = TRUE]
                ELSE b.items[i]]]

\* TOGGLE_CHECKLIST_ITEM
ToggleChecklistItemBlock(b, a) ==
    IF b.type # "checklist" THEN b
    ELSE [b EXCEPT !.items =
            [i \in 1..Len(b.items) |->
                IF b.items[i].id = a.itemId
                THEN [b.items[i] EXCEPT !.checked = ~b.items[i].checked]
                ELSE b.items[i]]]

ToggleChecklistItemNote(n, a, t) ==
    touch([n EXCEPT !.blocks =
            mapBlock(n.blocks, a.blockId,
                     [j \in 1..Len(n.blocks) |-> ToggleChecklistItemBlock(n.blocks[j], a)])], t)

\* UPDATE_CHECKLIST_ITEM
UpdateChecklistItemBlock(b, a) ==
    IF b.type # "checklist" THEN b
    ELSE [b EXCEPT !.items =
            [i \in 1..Len(b.items) |->
                IF b.items[i].id = a.itemId
                THEN [b.items[i] EXCEPT !.content = a.content]
                ELSE b.items[i]]]

UpdateChecklistItemNote(n, a, t) ==
    touch([n EXCEPT !.blocks =
            mapBlock(n.blocks, a.blockId,
                     [j \in 1..Len(n.blocks) |-> UpdateChecklistItemBlock(n.blocks[j], a)])], t)

\* ADD_CHECKLIST_ITEM that appends whatever the anchor.
AddChecklistItemBlock_Appends(b, a, k) ==
    IF b.type # "checklist" THEN b
    ELSE [b EXCEPT !.items =
            splice(b.items, Len(b.items), createChecklistItem(generateId(k + 1)))]

\* ADD_CHECKLIST_ITEM: createChecklistItem() runs once for each checklist
\* block with the id.
AddChecklistItemBlock(b, a, k) ==
    IF b.type # "checklist" THEN b
    ELSE LET idx == findIndex(b.items, a.afterItemId)
             insertAt == IF idx > 0 THEN idx ELSE Len(b.items)
         IN [b EXCEPT !.items =
                splice(b.items, insertAt, createChecklistItem(generateId(k + 1)))]

AddChecklistItemBlockDraws(b) == IF b.type # "checklist" THEN 0 ELSE 1

AddChecklistItemNote(n, a, t, k) ==
    LET counts == [j \in 1..Len(n.blocks) |-> AddChecklistItemBlockDraws(n.blocks[j])]
    IN touch([n EXCEPT !.blocks =
                mapBlock(n.blocks, a.blockId,
                         [j \in 1..Len(n.blocks) |->
                            AddChecklistItemBlock(n.blocks[j], a,
                                k + drawnBefore(n.blocks, a.blockId, counts, j - 1))])], t)

AddChecklistItemDraws(n, a) ==
    drawnBefore(n.blocks, a.blockId,
                [j \in 1..Len(n.blocks) |-> AddChecklistItemBlockDraws(n.blocks[j])],
                Len(n.blocks))

\* REMOVE_CHECKLIST_ITEM: createChecklistItem() runs only when nothing is left.
RemoveChecklistItemKept(b, a) == SelectSeq(b.items, LAMBDA i : i.id # a.itemId)

RemoveChecklistItemBlock_Recycles(b, a, k) ==
    IF b.type # "checklist" THEN b
    ELSE LET items == RemoveChecklistItemKept(b, a)
         IN [b EXCEPT !.items =
                IF Len(items) > 0 THEN items
                ELSE <<[createChecklistItem(generateId(k + 1)) EXCEPT !.id = a.itemId]>>]

RemoveChecklistItemBlock(b, a, k) ==
    IF b.type # "checklist" THEN b
    ELSE LET items == RemoveChecklistItemKept(b, a)
         IN [b EXCEPT !.items =
                IF Len(items) > 0 THEN items
                ELSE <<createChecklistItem(generateId(k + 1))>>]

RemoveChecklistItemBlockDraws(b, a) ==
    IF b.type # "checklist" THEN 0
    ELSE IF Len(RemoveChecklistItemKept(b, a)) > 0 THEN 0 ELSE 1

RemoveChecklistItemNote(n, a, t, k) ==
    LET counts == [j \in 1..Len(n.blocks) |->
                     RemoveChecklistItemBlockDraws(n.blocks[j], a)]
    IN touch([n EXCEPT !.blocks =
                mapBlock(n.blocks, a.blockId,
                         [j \in 1..Len(n.blocks) |->
                            RemoveChecklistItemBlock(n.blocks[j], a,
                                k + drawnBefore(n.blocks, a.blockId, counts, j - 1))])], t)

RemoveChecklistItemDraws(n, a) ==
    drawnBefore(n.blocks, a.blockId,
                [j \in 1..Len(n.blocks) |-> RemoveChecklistItemBlockDraws(n.blocks[j], a)],
                Len(n.blocks))

\* ------------------------------------------------------------ the reducer

\* The result of a case: the next EditorState, how many ids were drawn and
\* whether Date.now() was read.
Result(ns, active, drawn, read) ==
    [notes |-> ns, activeNoteId |-> active, drawn |-> drawn, read |-> read]

\* A case that maps fn over the notes with action.noteId and draws no id;
\* applied[i] is fn(state.notes[i]).
OnNote(state, a, applied) ==
    Result(mapNote(state.notes, a.noteId, applied),
           state.activeNoteId, 0, hasNote(state.notes, a.noteId))

\* A case that maps fn over the notes with action.noteId, fn drawing
\* counts[i] ids on state.notes[i].
OnNoteDrawing(state, a, applied, counts) ==
    Result(mapNote(state.notes, a.noteId, applied),
           state.activeNoteId,
           drawnBefore(state.notes, a.noteId, counts, Len(state.notes)),
           hasNote(state.notes, a.noteId))

\* DELETE_NOTE that closes the editor whenever the active note goes.
DeleteNoteCase_ActiveNull(state, a) ==
    LET remaining == SelectSeq(state.notes, LAMBDA n : n.id # a.noteId)
    IN Result(remaining,
              IF state.activeNoteId = a.noteId THEN Null ELSE state.activeNoteId,
              0, FALSE)

\* DELETE_NOTE that leaves activeNoteId as it is.
DeleteNoteCase_KeepsActive(state, a) ==
    LET remaining == SelectSeq(state.notes, LAMBDA n : n.id # a.noteId)
    IN Result(remaining, state.activeNoteId, 0, FALSE)

\* DELETE_NOTE that moves the editor to the first remaining note every time.
DeleteNoteCase_AlwaysResets(state, a) ==
    LET remaining == SelectSeq(state.notes, LAMBDA n : n.id # a.noteId)
    IN Result(remaining, IF Len(remaining) > 0 THEN remaining[1].id ELSE Null, 0, FALSE)

DeleteNoteCase(state, a) ==
    LET remaining == SelectSeq(state.notes, LAMBDA n : n.id # a.noteId)
    IN Result(remaining,
              IF state.activeNoteId = a.noteId
              THEN (IF Len(remaining) > 0 THEN remaining[1].id ELSE Null)
              ELSE state.activeNoteId,
              0, FALSE)

\* MOVE_BLOCK reads the clock only for a note whose block moves.
MoveBlockCase(state, a, t) ==
    Result(mapNote(state.notes, a.noteId,
                   [i \in 1..Len(state.notes) |-> MoveBlockNote(state.notes[i], a, t)]),
           state.activeNoteId, 0,
           \E i \in 1..Len(state.notes) :
              state.notes[i].id = a.noteId /\ MoveBlockMoves(state.notes[i], a))

\* CREATE_NOTE that puts the new note after the others.
CreateNoteCase_Appends(state, t, k) ==
    LET note == createNote(t, k)
    IN Result(state.notes \o <<note>>, note.id, 2, TRUE)

CreateNoteCase(state, t, k) ==
    LET note == createNote(t, k)
    IN Result(<<note>> \o state.notes, note.id, 2, TRUE)

\* A default that falls back to initialEditorState.
DefaultCase_Initial(state) == Result(<<>>, Null, 0, FALSE)

\* default: return state
DefaultCase(state) == Result(state.notes, state.activeNoteId, 0, FALSE)

\* editorReducer(state, action), with Date.now() reading t and generateId()
\* having returned k ids.
editorReducer(state, a, t, k) ==
    LET ns == state.notes
        N == 1..Len(state.notes)
    IN CASE a.type = "LOAD_NOTES" -> Result(a.notes, state.activeNoteId, 0, FALSE)
         [] a.type = "CREATE_NOTE" -> CreateNoteCase(state, t, k)
         [] a.type = "DELETE_NOTE" -> DeleteNoteCase(state, a)
         [] a.type = "SET_ACTIVE_NOTE" -> Result(ns, a.noteId, 0, FALSE)
         [] a.type = "UPDATE_TITLE" ->
               OnNote(state, a, [i \in N |-> UpdateTitleNote(ns[i], a, t)])
         [] a.type = "UPDATE_BODY" ->
               OnNote(state, a, [i \in N |-> UpdateBodyNote(ns[i], a, t)])
         [] a.type = "ADD_BLOCK" ->
               OnNote(state, a, [i \in N |-> AddBlockNote(ns[i], a, t)])
         [] a.type = "REMOVE_BLOCK" ->
               (LET counts == [i \in N |-> RemoveBlockDraws(ns[i], a)]
                IN OnNoteDrawing(state, a,
                       [i \in N |-> RemoveBlockNote(ns[i], a, t,
                                        k + drawnBefore(ns, a.noteId, counts, i - 1))],
                       counts))
         [] a.type = "UPDATE_BLOCK" ->
               OnNote(state, a, [i \in N |-> UpdateBlockNote(ns[i], a, t)])
         [] a.type = "REPLACE_BLOCK" ->
               OnNote(state, a, [i \in N |-> ReplaceBlockNote(ns[i], a, t)])
         [] a.type = "MOVE_BLOCK" -> MoveBlockCase(state, a, t)
         [] a.type = "UPDATE_BLOCK_CONTENT" ->
               OnNote(state, a, [i \in N |-> UpdateBlockContentNote(ns[i], a, t)])
         [] a.type = "UPDATE_LIST_ITEM" ->
               OnNote(state, a, [i \in N |-> UpdateListItemNote(ns[i], a, t)])
         [] a.type = "ADD_LIST_ITEM" ->
               OnNote(state, a, [i \in N |-> AddListItemNote(ns[i], a, t)])
         [] a.type = "REMOVE_LIST_ITEM" ->
               OnNote(state, a, [i \in N |-> RemoveListItemNote(ns[i], a, t)])
         [] a.type = "TOGGLE_CHECKLIST_ITEM" ->
               OnNote(state, a, [i \in N |-> ToggleChecklistItemNote(ns[i], a, t)])
         [] a.type = "UPDATE_CHECKLIST_ITEM" ->
               OnNote(state, a, [i \in N |-> UpdateChecklistItemNote(ns[i], a, t)])
         [] a.type = "ADD_CHECKLIST_ITEM" ->
               (LET counts == [i \in N |-> AddChecklistItemDraws(ns[i], a)]
                IN OnNoteDrawing(state, a,
                       [i \in N |-> AddChecklistItemNote(ns[i], a, t,
                                        k + drawnBefore(ns, a.noteId, counts, i - 1))],
                       counts))
         [] a.type = "REMOVE_CHECKLIST_ITEM" ->
               (LET counts == [i \in N |-> RemoveChecklistItemDraws(ns[i], a)]
                IN OnNoteDrawing(state, a,
                       [i \in N |-> RemoveChecklistItemNote(ns[i], a, t,
                                        k + drawnBefore(ns, a.noteId, counts, i - 1))],
                       counts))
         [] OTHER -> DefaultCase(state)

\* ------------------------------------------------- the action payloads

ContentA == <<plainSpan(<<"a">>)>>

\* An id no note, block or item has.
AbsentId == "zz"

ParagraphX1 == [id |-> "x1", type |-> "paragraph", content |-> ContentA]
ListX2 == [id |-> "x2", type |-> "list", ordered |-> FALSE,
           items |-> <<emptyContent, ContentA>>]
ListX7 == [id |-> "x7", type |-> "list", ordered |-> TRUE, items |-> <<ContentA>>]
ChecklistX3 == [id |-> "x3", type |-> "checklist",
                items |-> <<[id |-> "i1", checked |-> FALSE, content |-> ContentA],
                            [id |-> "i2", checked |-> TRUE, content |-> emptyContent]>>]
HeadingX4 == [id |-> "x4", type |-> "heading", level |-> 2, content |-> emptyContent]
ChecklistX8 == [id |-> "x8", type |-> "checklist",
                items |-> <<[id |-> "i8", checked |-> TRUE, content |-> ContentA]>>]
\* A value of type ListBlock with no item.
ListX5 == [id |-> "x5", type |-> "list", ordered |-> TRUE, items |-> <<>>]

\* The blocks ADD_BLOCK and REPLACE_BLOCK carry.
BlockPayloads == {ParagraphX1, HeadingX4, ListX2, ListX5}

\* The patches UPDATE_BLOCK carries.
PatchPayloads ==
    {[id |-> "x9", type |-> "heading", content |-> ContentA], [items |-> <<>>]}

StoredNote(id, blocks) ==
    [id |-> id, title |-> "s", body |-> "", blocks |-> blocks,
     createdAt |-> 0, updatedAt |-> 0]

\* The note lists LOAD_NOTES carries: what storage held.
LoadPayloads ==
    {<<StoredNote("n1", <<ChecklistX3>>), StoredNote("n2", <<HeadingX4, ListX7>>)>>,
     <<StoredNote("n3", <<>>), StoredNote("n4", <<ChecklistX8, ListX2, ParagraphX1>>)>>}

NoteIdArgs == {notes[i].id : i \in 1..Len(notes)} \cup {AbsentId}

\* The blocks of the notes with the id.
BlocksOf(noteId) ==
    UNION {{notes[i].blocks[j] : j \in 1..Len(notes[i].blocks)} :
              i \in {i \in 1..Len(notes) : notes[i].id = noteId}}

BlockIdArgs(noteId) == {b.id : b \in BlocksOf(noteId)} \cup {AbsentId}

ItemIdArgs(noteId, blockId) ==
    UNION {{b.items[j].id : j \in 1..Len(b.items)} :
              b \in {b \in BlocksOf(noteId) : b.id = blockId /\ b.type = "checklist"}}
    \cup {AbsentId}

\* The 0-based indices the list actions carry: from two before the first
\* item to one past the last.
IndexArgs(noteId, blockId) ==
    LET lists == {b \in BlocksOf(noteId) : b.id = blockId /\ b.type = "list"}
    IN IF lists = {} THEN {0}
       ELSE UNION {(0 - 2)..(Len(b.items) + 1) : b \in lists}

\* The readings Date.now() may return.
Nows == {clock, Min(clock + 1, MaxClock)}

\* ------------------------------------------------------------ the steps

State == [notes |-> notes, activeNoteId |-> activeNoteId]

\* dispatch(action): useReducer applies editorReducer to the current state.
\* The clock is read anew only when the reducer reads it.
Dispatch(a) ==
    /\ steps < MaxSteps
    /\ \E t \in (IF editorReducer(State, a, clock, idCount).read THEN Nows ELSE {clock}) :
          LET r == editorReducer(State, a, t, idCount)
          IN /\ notes' = r.notes
             /\ activeNoteId' = r.activeNoteId
             /\ idCount' = idCount + r.drawn
             /\ clock' = t
    /\ steps' = steps + 1
    /\ last' = a
    /\ prev' = [notes |-> notes, activeNoteId |-> activeNoteId, clock |-> clock,
                idCount |-> idCount]
    /\ UNCHANGED <<keymapVars, codecVars, appVars>>

\* EditorProvider's mount effect, when storage holds a non-empty note list:
\* LOAD_NOTES and then SET_ACTIVE_NOTE with the first stored note's id, both
\* in the one effect. It runs before any other event. (When storage holds
\* nothing it dispatches nothing: no step.)
HYDRATE ==
    /\ steps = 0
    /\ steps < MaxSteps
    /\ \E stored \in LoadPayloads :
          LET a1 == [type |-> "LOAD_NOTES", notes |-> stored]
              r1 == editorReducer(State, a1, clock, idCount)
              a2 == [type |-> "SET_ACTIVE_NOTE", noteId |-> stored[1].id]
              r2 == editorReducer([notes |-> r1.notes, activeNoteId |-> r1.activeNoteId],
                                  a2, clock, idCount)
          IN /\ notes' = r2.notes
             /\ activeNoteId' = r2.activeNoteId
             /\ last' = a2
             /\ prev' = [notes |-> r1.notes, activeNoteId |-> r1.activeNoteId,
                         clock |-> clock, idCount |-> idCount]
    /\ steps' = steps + 1
    /\ UNCHANGED <<clock, idCount>>
    /\ UNCHANGED <<keymapVars, codecVars, appVars>>

LOAD_NOTES == \E ns \in LoadPayloads : Dispatch([type |-> "LOAD_NOTES", notes |-> ns])

CREATE_NOTE == Dispatch([type |-> "CREATE_NOTE"])

DELETE_NOTE == \E noteId \in NoteIdArgs : Dispatch([type |-> "DELETE_NOTE", noteId |-> noteId])

SET_ACTIVE_NOTE ==
    \E noteId \in NoteIdArgs \cup {Null} :
        Dispatch([type |-> "SET_ACTIVE_NOTE", noteId |-> noteId])

UPDATE_TITLE ==
    \E noteId \in NoteIdArgs :
        Dispatch([type |-> "UPDATE_TITLE", noteId |-> noteId, title |-> "t"])

UPDATE_BODY ==
    \E noteId \in NoteIdArgs :
        Dispatch([type |-> "UPDATE_BODY", noteId |-> noteId, body |-> "<p>b</p>"])

ADD_BLOCK ==
    \E noteId \in NoteIdArgs : \E afterBlockId \in BlockIdArgs(noteId) :
    \E block \in BlockPayloads :
        Dispatch([type |-> "ADD_BLOCK", noteId |-> noteId,
                  afterBlockId |-> afterBlockId, block |-> block])

REMOVE_BLOCK ==
    \E noteId \in NoteIdArgs : \E blockId \in BlockIdArgs(noteId) :
        Dispatch([type |-> "REMOVE_BLOCK", noteId |-> noteId, blockId |-> blockId])

UPDATE_BLOCK ==
    \E noteId \in NoteIdArgs : \E blockId \in BlockIdArgs(noteId) :
    \E patch \in PatchPayloads :
        Dispatch([type |-> "UPDATE_BLOCK", noteId |-> noteId, blockId |-> blockId,
                  patch |-> patch])

REPLACE_BLOCK ==
    \E noteId \in NoteIdArgs : \E blockId \in BlockIdArgs(noteId) :
    \E block \in BlockPayloads :
        Dispatch([type |-> "REPLACE_BLOCK", noteId |-> noteId, blockId |-> blockId,
                  block |-> block])

MOVE_BLOCK ==
    \E noteId \in NoteIdArgs : \E blockId \in BlockIdArgs(noteId) :
    \E direction \in {"up", "down"} :
        Dispatch([type |-> "MOVE_BLOCK", noteId |-> noteId, blockId |-> blockId,
                  direction |-> direction])

UPDATE_BLOCK_CONTENT ==
    \E noteId \in NoteIdArgs : \E blockId \in BlockIdArgs(noteId) :
        Dispatch([type |-> "UPDATE_BLOCK_CONTENT", noteId |-> noteId,
                  blockId |-> blockId, content |-> ContentA])

UPDATE_LIST_ITEM ==
    \E noteId \in NoteIdArgs : \E blockId \in BlockIdArgs(noteId) :
    \E itemIndex \in IndexArgs(noteId, blockId) :
        Dispatch([type |-> "UPDATE_LIST_ITEM", noteId |-> noteId, blockId |-> blockId,
                  itemIndex |-> itemIndex, content |-> ContentA])

ADD_LIST_ITEM ==
    \E noteId \in NoteIdArgs : \E blockId \in BlockIdArgs(noteId) :
    \E afterIndex \in IndexArgs(noteId, blockId) :
        Dispatch([type |-> "ADD_LIST_ITEM", noteId |-> noteId, blockId |-> blockId,
                  afterIndex |-> afterIndex])

REMOVE_LIST_ITEM ==
    \E noteId \in NoteIdArgs : \E blockId \in BlockIdArgs(noteId) :
    \E itemIndex \in IndexArgs(noteId, blockId) :
        Dispatch([type |-> "REMOVE_LIST_ITEM", noteId |-> noteId, blockId |-> blockId,
                  itemIndex |-> itemIndex])

TOGGLE_CHECKLIST_ITEM ==
    \E noteId \in NoteIdArgs : \E blockId \in BlockIdArgs(noteId) :
    \E itemId \in ItemIdArgs(noteId, blockId) :
        Dispatch([type |-> "TOGGLE_CHECKLIST_ITEM", noteId |-> noteId,
                  blockId |-> blockId, itemId |-> itemId])

UPDATE_CHECKLIST_ITEM ==
    \E noteId \in NoteIdArgs : \E blockId \in BlockIdArgs(noteId) :
    \E itemId \in ItemIdArgs(noteId, blockId) :
        Dispatch([type |-> "UPDATE_CHECKLIST_ITEM", noteId |-> noteId,
                  blockId |-> blockId, itemId |-> itemId, content |-> ContentA])

ADD_CHECKLIST_ITEM ==
    \E noteId \in NoteIdArgs : \E blockId \in BlockIdArgs(noteId) :
    \E afterItemId \in ItemIdArgs(noteId, blockId) :
        Dispatch([type |-> "ADD_CHECKLIST_ITEM", noteId |-> noteId,
                  blockId |-> blockId, afterItemId |-> afterItemId])

REMOVE_CHECKLIST_ITEM ==
    \E noteId \in NoteIdArgs : \E blockId \in BlockIdArgs(noteId) :
    \E itemId \in ItemIdArgs(noteId, blockId) :
        Dispatch([type |-> "REMOVE_CHECKLIST_ITEM", noteId |-> noteId,
                  blockId |-> blockId, itemId |-> itemId])

\* An action whose type the switch does not list: the default branch.
UNKNOWN_ACTION == Dispatch([type |-> "UNKNOWN"])

\* initialEditorState; nothing dispatched, no id drawn. The clock stands
\* after the time 0 at which an earlier session stamped what storage holds.
InitReducer ==
    /\ notes = <<>>
    /\ activeNoteId = Null
    /\ clock = 1
    /\ idCount = 0
    /\ steps = 0
    /\ last = [type |-> "INIT"]
    /\ prev = [notes |-> <<>>, activeNoteId |-> Null, clock |-> 1, idCount |-> 0]

InitKeymapIdle ==
    /\ sel = [path |-> <<>>, textLength |-> 0]
    /\ handled = [key |-> "none"]

InitCodecIdle ==
    /\ input = [kind |-> "none"]
    /\ output = [op |-> "none"]

\* No delete requested: useState<DeleteTarget>(null).
NoTarget == [pending |-> FALSE, noteId |-> Null, noteTitle |-> ""]

\* Before the first render: both refs as useRef() creates them, nothing
\* rendered, no handler called.
InitAppUnmounted ==
    /\ refs = [hydrated |-> FALSE, isFirstRender |-> TRUE]
    /\ mounted = FALSE
    /\ rendered = [notes |-> <<>>, activeNoteId |-> Null, pending |-> FALSE,
                   fresh |-> FALSE]
    /\ deleteTarget = NoTarget
    /\ pane = [note |-> Null, editor |-> Null]
    /\ event = [name |-> "none"]
    /\ request = [noteId |-> Null, open |-> FALSE]

\* localStorage has no entry under STORAGE_KEY.
InitAppIdle == storage = [raw |-> "absent", notes |-> <<>>] /\ InitAppUnmounted

Init == InitReducer /\ InitKeymapIdle /\ InitCodecIdle /\ InitAppIdle

Next ==
    \/ HYDRATE
    \/ LOAD_NOTES
    \/ CREATE_NOTE
    \/ DELETE_NOTE
    \/ SET_ACTIVE_NOTE
    \/ UPDATE_TITLE
    \/ UPDATE_BODY
    \/ ADD_BLOCK
    \/ REMOVE_BLOCK
    \/ UPDATE_BLOCK
    \/ REPLACE_BLOCK
    \/ MOVE_BLOCK
    \/ UPDATE_BLOCK_CONTENT
    \/ UPDATE_LIST_ITEM
    \/ ADD_LIST_ITEM
    \/ REMOVE_LIST_ITEM
    \/ TOGGLE_CHECKLIST_ITEM
    \/ UPDATE_CHECKLIST_ITEM
    \/ ADD_CHECKLIST_ITEM
    \/ REMOVE_CHECKLIST_ITEM
    \/ UNKNOWN_ACTION

Spec == Init /\ [][Next]_vars

\* ------------------------------------------------------------ the keymap
\*
\* The handlers read the document only through the resolved position $from:
\* its depth, the ancestors $from.node(d) for d = 1..depth (type name and
\* childCount), and $from.parent (= $from.node(depth), or the doc node at
\* depth 0) with isTextblock and textContent.length. sel.path[d] is
\* $from.node(d), sel.textLength is $from.parent.textContent.length.

\* The node types of the schema the extensions configure.
Textblocks == {"paragraph", "heading"}
Lists == {"bulletList", "orderedList", "taskList"}
Blocks == Textblocks \cup Lists

\* The node types a node of the type may hold ("doc" is the root).
ChildTypes(name) ==
    CASE name = "doc" -> Blocks
      [] name \in {"bulletList", "orderedList"} -> {"listItem"}
      [] name = "taskList" -> {"taskItem"}
      [] name \in {"listItem", "taskItem"} -> Blocks
      [] OTHER -> {}

\* The nodes of a type: a list holds at least one item and an item at least
\* its paragraph; a text block holds any number of inline nodes.
NodesOf(name) ==
    {[name |-> name, childCount |-> c] :
        c \in (IF name \in Textblocks THEN 0 ELSE 1)..MaxChildren}

ParentName(path) == IF Len(path) = 0 THEN "doc" ELSE path[Len(path)].name

RECURSIVE PathsOfDepth(_)
\* The ancestor chains of the depth the schema allows.
PathsOfDepth(d) ==
    IF d = 0 THEN {<<>>}
    ELSE UNION {{Append(p, n) : n \in UNION {NodesOf(c) : c \in ChildTypes(ParentName(p))}} :
                    p \in PathsOfDepth(d - 1)}

\* The text lengths $from.parent may have: text nodes and hard breaks make up
\* the children of a text block, and a hard break adds no text.
TextLengths(path) ==
    IF ParentName(path) \in Textblocks THEN 0..path[Len(path)].childCount ELSE {0}

\* The selections: a cursor in a text block, or a node or all selection,
\* whose $from.parent is no text block.
Selections ==
    UNION {{[path |-> p, textLength |-> l] : l \in TextLengths(p)} :
              p \in UNION {PathsOfDepth(d) : d \in 0..MaxDepth}}

RECURSIVE listItemTypeNameFrom(_, _)
\* The loop of listItemTypeName, entered at depth d.
listItemTypeNameFrom(path, d) ==
    IF d <= 0 THEN Null
    ELSE IF path[d].name = "listItem" \/ path[d].name = "taskItem" THEN path[d].name
    ELSE listItemTypeNameFrom(path, d - 1)

\* The outermost item in place of the innermost.
listItemTypeName_Outermost(s) ==
    IF \E d \in 1..Len(s.path) : s.path[d].name \in {"listItem", "taskItem"}
    THEN s.path[CHOOSE d \in 1..Len(s.path) :
                    /\ s.path[d].name \in {"listItem", "taskItem"}
                    /\ \A e \in 1..(d - 1) : ~(s.path[e].name \in {"listItem", "taskItem"})].name
    ELSE Null

listItemTypeName(s) == listItemTypeNameFrom(s.path, Len(s.path))

RECURSIVE singleChildItemFrom(_, _)
\* The loop of isAtEmptyListItem, entered at depth d.
singleChildItemFrom(path, d) ==
    IF d < 1 THEN FALSE
    ELSE IF path[d].name = "listItem" \/ path[d].name = "taskItem"
         THEN path[d].childCount = 1
    ELSE singleChildItemFrom(path, d - 1)

\* The empty-item test that lets a second child of the item pass.
isAtEmptyListItem_UpToTwo(s) ==
    IF ~(ParentName(s.path) \in Textblocks) THEN FALSE
    ELSE IF s.textLength # 0 THEN FALSE
    ELSE \E d \in 1..(Len(s.path) - 1) :
            /\ s.path[d].name \in {"listItem", "taskItem"}
            /\ \A e \in (d + 1)..(Len(s.path) - 1) :
                  ~(s.path[e].name \in {"listItem", "taskItem"})
            /\ s.path[d].childCount <= 2

\* The empty-item test without the single-child condition.
isAtEmptyListItem_AnyChildren(s) ==
    IF ~(ParentName(s.path) \in Textblocks) THEN FALSE
    ELSE IF s.textLength # 0 THEN FALSE
    ELSE \E d \in 1..(Len(s.path) - 1) : s.path[d].name \in {"listItem", "taskItem"}

isAtEmptyListItem(s) ==
    IF ~(ParentName(s.path) \in Textblocks) THEN FALSE
    ELSE IF s.textLength # 0 THEN FALSE
    ELSE singleChildItemFrom(s.path, Len(s.path) - 1)

\* What a handler returns: false, or the result of the one command it runs.
Defer == [cmd |-> "none", kind |-> "none"]
Command(cmd, kind) == [cmd |-> cmd, kind |-> kind]

\* CustomTaskItem is configured with nested: true.
TaskItemNested == TRUE

ItemEnter(s, kind) ==
    IF listItemTypeName(s) # kind THEN Defer
    ELSE IF isAtEmptyListItem(s) THEN Command("liftListItem", kind)
    ELSE Command("splitListItem", kind)

\* Tab that follows the empty-item rule of Enter.
ItemTab_LiftsWhenEmpty(s, kind) ==
    IF listItemTypeName(s) # kind THEN Defer
    ELSE IF isAtEmptyListItem(s) THEN Command("liftListItem", kind)
    ELSE Command("sinkListItem", kind)

ItemTab(s, kind) ==
    IF listItemTypeName(s) # kind THEN Defer ELSE Command("sinkListItem", kind)

ItemShiftTab(s, kind) ==
    IF listItemTypeName(s) # kind THEN Defer ELSE Command("liftListItem", kind)

CustomListItemEnter(s) == ItemEnter(s, "listItem")
CustomListItemTab(s) == ItemTab(s, "listItem")
CustomListItemShiftTab(s) == ItemShiftTab(s, "listItem")

CustomTaskItemEnter(s) == ItemEnter(s, "taskItem")
\* The Tab shortcut is registered only when nesting is enabled.
CustomTaskItemTab(s) == IF TaskItemNested THEN ItemTab(s, "taskItem") ELSE Defer
CustomTaskItemShiftTab(s) == ItemShiftTab(s, "taskItem")

\* A key reaches the shortcut of each extension; handled records what each
\* returns on the selection. The command a handler runs is the editing
\* engine's: its transaction is not part of this repository.
KeyEnter ==
    /\ handled.key = "none"
    /\ handled' = [key |-> "Enter", listItem |-> CustomListItemEnter(sel),
                   taskItem |-> CustomTaskItemEnter(sel)]
    /\ UNCHANGED sel
    /\ UNCHANGED <<reducerVars, codecVars, appVars>>

KeyTab ==
    /\ handled.key = "none"
    /\ handled' = [key |-> "Tab", listItem |-> CustomListItemTab(sel),
                   taskItem |-> CustomTaskItemTab(sel)]
    /\ UNCHANGED sel
    /\ UNCHANGED <<reducerVars, codecVars, appVars>>

KeyShiftTab ==
    /\ handled.key = "none"
    /\ handled' = [key |-> "Shift-Tab", listItem |-> CustomListItemShiftTab(sel),
                   taskItem |-> CustomTaskItemShiftTab(sel)]
    /\ UNCHANGED sel
    /\ UNCHANGED <<reducerVars, codecVars, appVars>>

\* Any selection the schema allows may be the one a key arrives at.
InitKeymap ==
    /\ InitReducer
    /\ sel \in Selections
    /\ handled = [key |-> "none"]
    /\ InitCodecIdle
    /\ InitAppIdle

NextKeymap == KeyEnter \/ KeyTab \/ KeyShiftTab

SpecKeymap == InitKeymap /\ [][NextKeymap]_vars

\* ------------------------------------------------------------- the codec
\* A JavaScript string is the sequence of its characters, each a
\* one-character string: Chars turns a string literal of the source into it.
Chars(str) == [i \in 1..Len(str) |-> SubSeq(str, i, i)]

RECURSIVE join(_)
\* parts.join(''): the strings of an array run together.
join(parts) == IF parts = <<>> THEN <<>> ELSE Head(parts) \o join(Tail(parts))

\* spansToText with a space after every span.
spansToText_Spaced(spans) ==
    join([i \in 1..Len(spans) |-> spans[i].text \o <<" ">>])

\* spans.map((s) => s.text).join('')
spansToText(spans) == join([i \in 1..Len(spans) |-> spans[i].text])

\* [{ text }]
textToSpans(text) == <<plainSpan(text)>>

RECURSIVE replaceAll(_, _, _)
\* text.replace(/ch/g, code): every occurrence of the character ch, from the
\* left, becomes the string code.
replaceAll(text, ch, code) ==
    IF text = <<>> THEN <<>>
    ELSE (IF Head(text) = ch THEN code ELSE <<Head(text)>>)
            \o replaceAll(Tail(text), ch, code)

\* esc with the ampersand replaced last.
esc_AmpersandLast(text) ==
    replaceAll(replaceAll(replaceAll(replaceAll(text,
        "<", Chars("&lt;")), ">", Chars("&gt;")), "\"", Chars("&quot;")),
        "&", Chars("&amp;"))

\* esc: the four replacements run one after the other, the ampersand first.
esc(text) ==
    replaceAll(replaceAll(replaceAll(replaceAll(text,
        "&", Chars("&amp;")), "<", Chars("&lt;")), ">", Chars("&gt;")),
        "\"", Chars("&quot;"))

\* The callback spansToHtml maps over the spans: an empty text yields '',
\* whatever its flags; the tags nest strong inside em inside u.
spanToHtml(s) ==
    LET html0 == esc(s.text)
        html1 == IF s.bold THEN Chars("<strong>") \o html0 \o Chars("</strong>")
                 ELSE html0
        html2 == IF s.italic THEN Chars("<em>") \o html1 \o Chars("</em>")
                 ELSE html1
        html3 == IF s.underline THEN Chars("<u>") \o html2 \o Chars("</u>")
                 ELSE html2
    IN IF html0 = <<>> THEN <<>> ELSE html3

spansToHtml(spans) == join([i \in 1..Len(spans) |-> spanToHtml(spans[i])])

\* The callback the checklist case maps over the items.
taskItemToHtml(item) ==
    Chars("<li data-type=\"taskItem\" data-checked=\"")
        \o (IF item.checked THEN Chars("true") ELSE Chars("false"))
        \o Chars("\"><label><input type=\"checkbox\"")
        \o (IF item.checked THEN Chars(" checked=\"checked\"") ELSE <<>>)
        \o Chars("><span></span></label><div><p>")
        \o spansToHtml(item.content)
        \o Chars("</p></div></li>")

blockToHtml(block) ==
    CASE block.type = "paragraph" ->
            Chars("<p>") \o spansToHtml(block.content) \o Chars("</p>")
      [] block.type = "heading" ->
            Chars("<h") \o Chars(ToString(block.level)) \o Chars(">")
                \o spansToHtml(block.content)
                \o Chars("</h") \o Chars(ToString(block.level)) \o Chars(">")
      [] block.type = "list" ->
            LET tag == IF block.ordered THEN Chars("ol") ELSE Chars("ul")
                items == join([i \in 1..Len(block.items) |->
                                 Chars("<li><p>") \o spansToHtml(block.items[i])
                                    \o Chars("</p></li>")])
            IN Chars("<") \o tag \o Chars(">") \o items
                  \o Chars("</") \o tag \o Chars(">")
      [] block.type = "checklist" ->
            Chars("<ul data-type=\"taskList\">")
                \o join([i \in 1..Len(block.items) |-> taskItemToHtml(block.items[i])])
                \o Chars("</ul>")

\* blocksToHtml with neither fallback.
blocksToHtml_NoFallback(blocks) ==
    join([i \in 1..Len(blocks) |-> blockToHtml(blocks[i])])

\* blocksToHtml: '<p></p>' for no blocks, and for blocks whose markup is ''.
blocksToHtml(blocks) ==
    IF Len(blocks) = 0 THEN Chars("<p></p>")
    ELSE LET html == join([i \in 1..Len(blocks) |-> blockToHtml(blocks[i])])
         IN IF html = <<>> THEN Chars("<p></p>") ELSE html

\* The characters of the texts: the four that esc replaces and one it keeps.
Alphabet == {"a", "&", "<", ">", "\""}
Texts == UNION {[1..n -> Alphabet] : n \in 0..MaxText}

\* The flags of a TextSpan: none, bold, and all three.
Styles == {[bold |-> FALSE, italic |-> FALSE, underline |-> FALSE],
           [bold |-> TRUE, italic |-> FALSE, underline |-> FALSE],
           [bold |-> TRUE, italic |-> TRUE, underline |-> TRUE]}
Span(text, style) ==
    [text |-> text, bold |-> style.bold, italic |-> style.italic,
     underline |-> style.underline]

\* Blocks of every type around one text.
BlocksWith(text) ==
    {[id |-> "x1", type |-> "paragraph", content |-> <<Span(text, st)>>] : st \in Styles}
    \cup {[id |-> "x1", type |-> "paragraph",
           content |-> <<plainSpan(text), Span(text, st)>>] : st \in Styles}
    \cup {[id |-> "x4", type |-> "heading", level |-> l,
           content |-> <<plainSpan(text)>>] : l \in 1..3}
    \cup {[id |-> "x2", type |-> "list", ordered |-> o, items |-> its] :
            o \in BOOLEAN,
            its \in {<<>>, <<<<plainSpan(text)>>>>, <<<<plainSpan(text)>>, emptyContent>>}}
    \cup {[id |-> "x3", type |-> "checklist",
           items |-> <<[id |-> "i1", checked |-> c, content |-> <<plainSpan(text)>>]>>] :
            c \in BOOLEAN}

\* The block sequences handed to blocksToHtml: none, one block, and two.
BlockSeqs ==
    {<<>>}
    \cup {<<b>> : b \in UNION {BlocksWith(text) : text \in Texts}}
    \cup {<<b1, b2>> : b1 \in BlocksWith(<<>>), b2 \in BlocksWith(<<"<">>)}

\* resolveBody(note) with no last resort.
resolveBody_NoFallback(note) ==
    IF note.body.given /\ note.body.value # <<>>
    THEN note.body.value
    ELSE IF note.blocks.given /\ Len(note.blocks.value) > 0
         THEN blocksToHtml(note.blocks.value)
         ELSE <<>>

\* resolveBody(note): the body when it is set and not '', else the markup of
\* the blocks when there are any, else an empty paragraph. Both properties
\* may be missing: given tells whether one is set.
resolveBody(note) ==
    IF note.body.given /\ note.body.value # <<>>
    THEN note.body.value
    ELSE IF note.blocks.given /\ Len(note.blocks.value) > 0
         THEN blocksToHtml(note.blocks.value)
         ELSE Chars("<p></p>")

\* An editable block input turns the string typed into spans, textToSpans,
\* and shows the spans it is given as a string, spansToText.
TextToSpans ==
    /\ input.kind = "text"
    /\ output.op = "none"
    /\ output' = [op |-> "textToSpans", spans |-> textToSpans(input.text)]
    /\ UNCHANGED <<input, reducerVars, keymapVars, appVars>>

SpansToText ==
    /\ output.op = "textToSpans"
    /\ output' = [op |-> "spansToText", text |-> spansToText(output.spans)]
    /\ UNCHANGED <<input, reducerVars, keymapVars, appVars>>

\* The migration of a note's blocks to markup.
BlocksToHtml ==
    /\ input.kind = "blocks"
    /\ output.op = "none"
    /\ output' = [op |-> "blocksToHtml", html |-> blocksToHtml(input.blocks)]
    /\ UNCHANGED <<input, reducerVars, keymapVars, appVars>>

\* NoteEditorPane resolving the body it hands to the editor.
ResolveBody ==
    /\ input.kind = "note"
    /\ output.op = "none"
    /\ output' = [op |-> "resolveBody", html |-> resolveBody(input.note)]
    /\ UNCHANGED <<input, reducerVars, keymapVars, appVars>>

\* The arguments of the conversions. The notes handed to resolveBody have
\* the body missing, '', blank or markup, and the blocks missing, none, or
\* one block, textually empty or not.
InitCodec ==
    /\ InitReducer
    /\ InitKeymapIdle
    /\ input \in {[kind |-> "text", text |-> text] : text \in Texts}
                \cup {[kind |-> "blocks", blocks |-> blocks] : blocks \in BlockSeqs}
                \cup {[kind |-> "note", note |-> note] : note \in
                         [body : {[given |-> FALSE, value |-> <<>>]}
                                    \cup {[given |-> TRUE, value |-> html] :
                                              html \in {<<>>, <<" ">>, Chars("<p>a</p>")}},
                          blocks : {[given |-> FALSE, value |-> <<>>],
                                    [given |-> TRUE, value |-> <<>>]}
                                      \cup {[given |-> TRUE, value |-> <<b>>] :
                                                b \in BlocksWith(<<>>)
                                                         \cup BlocksWith(<<"&">>)}]}
    /\ output = [op |-> "none"]
    /\ InitAppIdle

NextCodec == TextToSpans \/ SpansToText \/ BlocksToHtml \/ ResolveBody

SpecCodec == InitCodec /\ [][NextCodec]_vars

\* ====================================================== the application
\* EditorProvider (hydration and persistence), App's delete flow and
\* NoteEditorPane's handlers, driven by the events the page receives.

\* How many input events the page handles after mounting.
MaxEvents == 3

\* JSON has no holes and no undefined: JSON.stringify writes null for both.
stringifyBlock(b) ==
    IF b.type = "list" /\ "items" \in DOMAIN b
    THEN [b EXCEPT !.items = [i \in 1..Len(b.items) |->
                                 IF b.items[i] = Hole \/ b.items[i] = Undefined
                                 THEN <<[null |-> TRUE]>> ELSE b.items[i]]]
    ELSE b

\* What JSON.parse gives back of JSON.stringify(notes).
stringify(ns) ==
    [i \in 1..Len(ns) |->
        [ns[i] EXCEPT !.blocks = [j \in 1..Len(ns[i].blocks) |->
                                     stringifyBlock(ns[i].blocks[j])]]]

\* loadNotes(): [] when nothing is stored, when what is stored does not
\* parse, and when it is not an array.
loadNotes(st) == IF st.raw = "array" THEN st.notes ELSE <<>>

\* saveNotes(notes): the whole list replaces what was stored.
saveNotes(ns) == [raw |-> "array", notes |-> stringify(ns)]

\* The actions the hydrate effect dispatches for the notes it loaded.
hydrateActions(ns) ==
    IF Len(ns) > 0
    THEN <<[type |-> "LOAD_NOTES", notes |-> ns],
           [type |-> "SET_ACTIVE_NOTE", noteId |-> ns[1].id]>>
    ELSE <<>>

\* The hydrate effect without the guard.
hydrateEffect_Unguarded(r, st) ==
    [refs |-> [r EXCEPT !.hydrated = TRUE], actions |-> hydrateActions(loadNotes(st))]

\* The hydrate effect: guarded by the hydrated ref.
hydrateEffect(r, st) ==
    IF r.hydrated
    THEN [refs |-> r, actions |-> <<>>]
    ELSE [refs |-> [r EXCEPT !.hydrated = TRUE], actions |-> hydrateActions(loadNotes(st))]

\* The persist effect, run with the state.notes of the render it belongs
\* to: the first run only clears the isFirstRender ref.
persistEffect(r, ns, st) ==
    IF r.isFirstRender
    THEN [refs |-> [r EXCEPT !.isFirstRender = FALSE], storage |-> st, saved |-> <<>>]
    ELSE [refs |-> r, storage |-> saveNotes(ns), saved |-> <<ns>>]

\* The actions applied in dispatch order, each to the result of the one
\* before; changed tells whether the state became another object (every
\* action the page dispatches is a case of the switch), fresh whether
\* state.notes became another array (every case but SET_ACTIVE_NOTE).
RECURSIVE reduceAll(_, _, _, _)
reduceAll(state, actions, t, k) ==
    IF actions = <<>>
    THEN [notes |-> state.notes, activeNoteId |-> state.activeNoteId, drawn |-> 0,
          fresh |-> FALSE, changed |-> FALSE]
    ELSE LET r == editorReducer(state, Head(actions), t, k)
             rest == reduceAll([notes |-> r.notes, activeNoteId |-> r.activeNoteId],
                               Tail(actions), t, k + r.drawn)
         IN [rest EXCEPT !.drawn = rest.drawn + r.drawn,
                         !.fresh = rest.fresh \/ Head(actions).type # "SET_ACTIVE_NOTE",
                         !.changed = TRUE]

\* useActiveNote(), by the id of the note it returns.
useActiveNote(state) ==
    IF state.activeNoteId = Null
          \/ \A i \in 1..Len(state.notes) : state.notes[i].id # state.activeNoteId
    THEN Null
    ELSE state.activeNoteId

\* A pane whose handlers keep the first note they were made for.
NoteEditorPane_StaleHandler(state, p) ==
    [note |-> IF p.note # Null THEN p.note ELSE useActiveNote(state),
     editor |-> useActiveNote(state)]

\* NoteEditorPane rendered on the state: the handlers close over the active
\* note, and TipTapEditor (rendered only when there is one) holds the
\* content of the note whose id it was given.
NoteEditorPane(state, p) ==
    [note |-> useActiveNote(state), editor |-> useActiveNote(state)]

\* What an event leaves to the history: the state, storage, delete target,
\* delete request and editor note it started from, what it dispatched and
\* what it saved.
Record(name, actions, saved) ==
    [name |-> name, dispatched |-> actions, saved |-> saved, before |-> State,
     stored |-> storage, target |-> deleteTarget, asked |-> request,
     editor |-> pane.editor]

\* dispatch(...) for each action, at the clock reading t; React queues a
\* render when the state changed.
Queue(actions, t) ==
    LET r == reduceAll(State, actions, t, idCount)
    IN /\ notes' = r.notes
       /\ activeNoteId' = r.activeNoteId
       /\ idCount' = idCount + r.drawn
       /\ clock' = t
       /\ rendered' = [rendered EXCEPT !.pending = rendered.pending \/ r.changed,
                                       !.fresh = rendered.fresh \/ r.fresh]

\* ------------------------------------------------------- the app's steps

\* The first render of the page and its effects, in declaration order:
\* hydrate (loadNotes, then the two dispatches when notes were stored), then
\* persist, which skips this first run. The render saw initialEditorState.
Mount ==
    /\ ~mounted
    /\ LET h == hydrateEffect(refs, storage)
           p == persistEffect(h.refs, notes, storage)
       IN /\ Queue(h.actions, clock)
          /\ refs' = p.refs
          /\ storage' = p.storage
          /\ event' = Record("Mount", h.actions, p.saved)
    /\ mounted' = TRUE
    /\ pane' = NoteEditorPane(State, pane)
    /\ UNCHANGED <<steps, last, prev, deleteTarget, request>>
    /\ UNCHANGED <<keymapVars, codecVars>>

\* React running the mount effects a second time on the mounted component,
\* as it does in development to find effects that are not safe to re-run
\* (what the hydrated ref guards against): the refs keep their values and
\* the effects still belong to the first render, whose state.notes they see.
\* It happens, if at all, straight after the first run.
RerunEffects ==
    /\ mounted
    /\ event.name = "Mount"
    /\ LET h == hydrateEffect(refs, storage)
           p == persistEffect(h.refs, rendered.notes, storage)
       IN /\ Queue(h.actions, clock)
          /\ refs' = p.refs
          /\ storage' = p.storage
          /\ event' = Record("RerunEffects", h.actions, p.saved)
    /\ UNCHANGED <<steps, last, prev, mounted, deleteTarget, pane, request>>
    /\ UNCHANGED <<keymapVars, codecVars>>

\* The render React queued for a state change, with the effects whose
\* dependencies changed: the persist effect when state.notes is another
\* array, and TipTapEditor's, which loads the content of the note it is
\* given (setContent as called emits no update). It runs before the next
\* input event is handled.
Render ==
    /\ mounted
    /\ rendered.pending
    /\ LET p == IF rendered.fresh THEN persistEffect(refs, notes, storage)
                ELSE [refs |-> refs, storage |-> storage, saved |-> <<>>]
       IN /\ refs' = p.refs
          /\ storage' = p.storage
          /\ event' = Record("Render", <<>>, p.saved)
    /\ rendered' = [notes |-> notes, activeNoteId |-> activeNoteId, pending |-> FALSE,
                    fresh |-> FALSE]
    /\ pane' = NoteEditorPane(State, pane)
    /\ UNCHANGED <<notes, activeNoteId, clock, idCount, steps, last, prev, mounted,
                   deleteTarget, request>>
    /\ UNCHANGED <<keymapVars, codecVars>>

\* An input event whose handler dispatches the actions, sets App's
\* deleteTarget to target, and asks for or answers a delete request. The
\* clock is read anew only when the reducer reads it.
Handle(name, actions, target, asked) ==
    /\ mounted
    /\ ~rendered.pending
    /\ steps < MaxEvents
    /\ \E t \in (IF \E i \in 1..Len(actions) :
                        editorReducer(State, actions[i], clock, idCount).read
                 THEN Nows ELSE {clock}) : Queue(actions, t)
    /\ deleteTarget' = target
    /\ request' = asked
    /\ event' = Record(name, actions, <<>>)
    /\ steps' = steps + 1
    /\ UNCHANGED <<last, prev, storage, refs, mounted, pane>>
    /\ UNCHANGED <<keymapVars, codecVars>>

\* handleNewNote, and the keydown listener on Cmd/Ctrl+N.
NewNote == Handle("NewNote", <<[type |-> "CREATE_NOTE"]>>, deleteTarget, request)

\* SidebarContent's handleSelect on a note of the list.
SelectNote ==
    \E i \in 1..Len(rendered.notes) :
        Handle("SelectNote",
               <<[type |-> "SET_ACTIVE_NOTE", noteId |-> rendered.notes[i].id]>>,
               deleteTarget, request)

\* handleDeleteRequest, called by the sidebar for a note of the list.
DeleteRequest ==
    \E i \in 1..Len(rendered.notes) :
        Handle("DeleteRequest", <<>>,
               [pending |-> TRUE, noteId |-> rendered.notes[i].id,
                noteTitle |-> rendered.notes[i].title],
               [noteId |-> rendered.notes[i].id, open |-> TRUE])

\* handleDeleteConfirm: the Delete button of the dialog.
DeleteConfirm ==
    Handle("DeleteConfirm",
           IF ~deleteTarget.pending THEN <<>>
           ELSE <<[type |-> "DELETE_NOTE", noteId |-> deleteTarget.noteId]>>,
           NoTarget, [request EXCEPT !.open = FALSE])

\* A handleDeleteClose that leaves the target as it is.
DeleteClose_KeepsTarget ==
    Handle("DeleteClose", <<>>, deleteTarget, [request EXCEPT !.open = FALSE])

\* handleDeleteClose: Cancel, Escape or a click on the overlay.
DeleteClose ==
    Handle("DeleteClose", <<>>, NoTarget, [request EXCEPT !.open = FALSE])

\* handleTitleChange of the pane, with the note of the render it was made in.
TitleChange ==
    Handle("TitleChange",
           IF pane.note = Null THEN <<>>
           ELSE <<[type |-> "UPDATE_TITLE", noteId |-> pane.note, title |-> "t"]>>,
           deleteTarget, request)

\* The editor's onUpdate, which calls the handleBodyUpdate of the latest
\* render through onUpdateRef; there is an editor only while a note is shown.
BodyUpdate ==
    /\ pane.editor # Null
    /\ Handle("BodyUpdate",
              IF pane.note = Null THEN <<>>
              ELSE <<[type |-> "UPDATE_BODY", noteId |-> pane.note, body |-> "<p>b</p>"]>>,
              deleteTarget, request)

\* The page about to be opened, whatever storage holds: no entry, one that
\* is no array of notes, an empty list, or the notes of an earlier session.
InitApp ==
    /\ InitReducer
    /\ InitKeymapIdle
    /\ InitCodecIdle
    /\ storage \in {[raw |-> "absent", notes |-> <<>>],
                    [raw |-> "garbage", notes |-> <<>>],
                    [raw |-> "array", notes |-> <<>>]}
                      \cup {[raw |-> "array", notes |-> ns] : ns \in LoadPayloads}
    /\ InitAppUnmounted

NextApp ==
    \/ Mount
    \/ RerunEffects
    \/ Render
    \/ NewNote
    \/ SelectNote
    \/ DeleteRequest
    \/ DeleteConfirm
    \/ DeleteClose
    \/ TitleChange
    \/ BodyUpdate

SpecApp == InitApp /\ [][NextApp]_vars

\* ==================================================== reducer properties

\* The step just taken was the dispatch of an action of one of the types.
Did(types) == steps > 0 /\ last.type \in types

\* The positions, before the step, of the notes the action addresses.
Targets == {i \in 1..Len(prev.notes) : prev.notes[i].id = last.noteId}

BlockActions ==
    {"REMOVE_BLOCK", "UPDATE_BLOCK", "REPLACE_BLOCK", "MOVE_BLOCK", "UPDATE_BLOCK_CONTENT"}
ListItemActions == {"UPDATE_LIST_ITEM", "ADD_LIST_ITEM", "REMOVE_LIST_ITEM"}
ChecklistItemIdActions ==
    {"TOGGLE_CHECKLIST_ITEM", "UPDATE_CHECKLIST_ITEM", "REMOVE_CHECKLIST_ITEM"}
ChecklistItemActions == ChecklistItemIdActions \cup {"ADD_CHECKLIST_ITEM"}
\* The actions that change what a note holds.
ContentActions ==
    {"UPDATE_TITLE", "UPDATE_BODY", "ADD_BLOCK"} \cup BlockActions
        \cup ListItemActions \cup ChecklistItemActions
\* The actions that carry a noteId to find a note to change or delete.
NoteActions == {"DELETE_NOTE"} \cup ContentActions

AllHaveBlocks(ns) == \A i \in 1..Len(ns) : Len(ns[i].blocks) >= 1

\* C1 as the spec states it: whatever actions were dispatched with whatever
\* payloads, every note in the state has at least one block.
C1_EveryNoteHasABlock == AllHaveBlocks(notes)

\* C1 amended: an action applied to a state in which every note has at least
\* one block yields such a state, unless it is a LOAD_NOTES whose payload
\* holds a note without blocks (LOAD_NOTES installs its payload verbatim).
C1_BlocksPreserved ==
    (/\ steps > 0
     /\ AllHaveBlocks(prev.notes)
     /\ (last.type = "LOAD_NOTES" => AllHaveBlocks(last.notes)))
    => AllHaveBlocks(notes)

\* REMOVE_BLOCK took the only block of a note and the note still has one.
C1_Witness ==
    /\ Did({"REMOVE_BLOCK"})
    /\ AllHaveBlocks(prev.notes)
    /\ \E i \in Targets :
          /\ Len(prev.notes[i].blocks) = 1
          /\ prev.notes[i].blocks[1].id = last.blockId
          /\ Len(notes[i].blocks) = 1

HasItems(b) == b.type \in {"list", "checklist"} => Len(b.items) >= 1

AllHaveItems(ns) ==
    \A i \in 1..Len(ns) : \A j \in 1..Len(ns[i].blocks) : HasItems(ns[i].blocks[j])

\* The action hands the reducer no list or checklist without items.
CarriesItems(a) ==
    CASE a.type = "LOAD_NOTES" -> AllHaveItems(a.notes)
      [] a.type \in {"ADD_BLOCK", "REPLACE_BLOCK"} -> HasItems(a.block)
      [] a.type = "UPDATE_BLOCK" ->
            ("items" \in DOMAIN a.patch => Len(a.patch.items) >= 1)
      [] OTHER -> TRUE

\* C2 as the spec states it: whatever actions were dispatched, every list
\* block and every checklist block has at least one item.
C2_EveryListHasAnItem == AllHaveItems(notes)

\* C2 amended: an action applied to a state in which every list and checklist
\* block has at least one item yields such a state, unless the action itself
\* carries an empty items array (in a note of LOAD_NOTES, in the block of
\* ADD_BLOCK or REPLACE_BLOCK, in the patch of UPDATE_BLOCK).
C2_ItemsPreserved ==
    (steps > 0 /\ AllHaveItems(prev.notes) /\ CarriesItems(last))
    => AllHaveItems(notes)

\* REMOVE_LIST_ITEM took the only item of a list and the list still has one.
C2_Witness ==
    /\ Did({"REMOVE_LIST_ITEM"})
    /\ AllHaveItems(prev.notes)
    /\ last.itemIndex = 0
    /\ \E i \in Targets : \E j \in 1..Len(prev.notes[i].blocks) :
          /\ prev.notes[i].blocks[j].id = last.blockId
          /\ prev.notes[i].blocks[j].type = "list"
          /\ Len(prev.notes[i].blocks[j].items) = 1
          /\ notes[i].blocks[j].items = <<emptyContent>>

\* The note at position i held, before the step, the block REMOVE_BLOCK names
\* and no other.
OnlyBlockRemoved(i) ==
    /\ Len(prev.notes[i].blocks) = 1
    /\ prev.notes[i].blocks[1].id = last.blockId

\* C3: REMOVE_BLOCK on a note whose blocks are exactly the block named leaves
\* the note with exactly one block, a paragraph whose content is one span of
\* empty text, with an id other than the removed block's.
C3_RemoveOnlyBlock ==
    Did({"REMOVE_BLOCK"}) =>
        \A i \in Targets :
            OnlyBlockRemoved(i) =>
                /\ Len(notes) = Len(prev.notes)
                /\ Len(notes[i].blocks) = 1
                /\ DOMAIN notes[i].blocks[1] = {"id", "type", "content"}
                /\ notes[i].blocks[1].type = "paragraph"
                /\ Len(notes[i].blocks[1].content) = 1
                /\ notes[i].blocks[1].content[1].text = <<>>
                /\ notes[i].blocks[1].id # last.blockId

\* REMOVE_BLOCK was applied to a note with one block, naming it; the block it
\* removed was not an empty paragraph.
C3_Witness ==
    /\ Did({"REMOVE_BLOCK"})
    /\ \E i \in Targets :
          /\ OnlyBlockRemoved(i)
          /\ prev.notes[i].blocks[1].type = "checklist"

\* The note exists and none of the notes with the id has a block with the
\* action's blockId.
BlockAbsent ==
    /\ Targets # {}
    /\ \A i \in Targets : \A j \in 1..Len(prev.notes[i].blocks) :
          prev.notes[i].blocks[j].id # last.blockId

\* The checklist block exists and has no item with the action's itemId.
ItemAbsent ==
    LET found == UNION {{<<i, j>> : j \in {j \in 1..Len(prev.notes[i].blocks) :
                                    /\ prev.notes[i].blocks[j].id = last.blockId
                                    /\ prev.notes[i].blocks[j].type = "checklist"}} :
                            i \in Targets}
    IN /\ found # {}
       /\ \A ij \in found :
             \A m \in 1..Len(prev.notes[ij[1]].blocks[ij[2]].items) :
                prev.notes[ij[1]].blocks[ij[2]].items[m].id # last.itemId

\* C4 as the spec states it: an action that names an existing note and a
\* blockId the note lacks, or an existing checklist block and an itemId the
\* block lacks, returns a state equal to the prior one in every field,
\* updatedAt included. It is stated here of the prior states in which every
\* note has a block and every list an item, where nothing but the missing
\* target is at play.
C4_AbsentTargetNoOp ==
    (/\ steps > 0
     /\ AllHaveBlocks(prev.notes)
     /\ AllHaveItems(prev.notes)
     /\ \/ Did(BlockActions \cup ListItemActions \cup ChecklistItemActions) /\ BlockAbsent
        \/ Did(ChecklistItemIdActions) /\ ItemAbsent)
    => (notes = prev.notes /\ activeNoteId = prev.activeNoteId)

Mutated(i) ==
    /\ i \in Targets
    /\ last.type = "MOVE_BLOCK" => MoveBlockMoves(prev.notes[i], last)

\* C7 as the spec states it: a content action on an existing note leaves the
\* note's updatedAt strictly greater than it was.
C7_UpdatedAtGrows ==
    Did(ContentActions) =>
        \A i \in 1..Len(prev.notes) :
            Mutated(i) => notes[i].updatedAt > prev.notes[i].updatedAt

\* C7 amended: a content action on an existing note sets the note's updatedAt
\* to the reading of Date.now() it takes; with a clock that does not run
\* backwards that is never less than the stamp an earlier action left, and
\* it is greater only when the reading is a later millisecond.
C7_UpdatedAtStamped ==
    Did(ContentActions) =>
        \A i \in 1..Len(prev.notes) :
            Mutated(i) =>
                /\ notes[i].updatedAt = clock
                /\ notes[i].updatedAt >= prev.notes[i].updatedAt
                /\ (clock > prev.clock => notes[i].updatedAt > prev.notes[i].updatedAt)

\* A content action stamped a note with a later reading.
C7_Witness ==
    /\ Did(ContentActions)
    /\ \E i \in 1..Len(prev.notes) :
          Mutated(i) /\ notes[i].updatedAt > prev.notes[i].updatedAt

UniqueIds(seq) ==
    \A i \in 1..Len(seq) : \A j \in 1..Len(seq) : i # j => seq[i].id # seq[j].id

UniqueItems(b) == b.type = "checklist" => UniqueIds(b.items)

UniqueInNote(n) ==
    UniqueIds(n.blocks) /\ \A j \in 1..Len(n.blocks) : UniqueItems(n.blocks[j])

AllUnique(ns) == UniqueIds(ns) /\ \A i \in 1..Len(ns) : UniqueInNote(ns[i])

\* The ids the action carries for new notes, blocks and items are pairwise
\* distinct and are not in use in the scope they enter.
CarriesFreshIds(a) ==
    CASE a.type = "LOAD_NOTES" -> AllUnique(a.notes)
      [] a.type = "ADD_BLOCK" ->
            /\ UniqueItems(a.block)
            /\ \A i \in Targets : \A j \in 1..Len(prev.notes[i].blocks) :
                  prev.notes[i].blocks[j].id # a.block.id
      [] a.type = "REPLACE_BLOCK" ->
            /\ UniqueItems(a.block)
            /\ \A i \in Targets : \A j \in 1..Len(prev.notes[i].blocks) :
                  prev.notes[i].blocks[j].id = a.block.id
                      => prev.notes[i].blocks[j].id = a.blockId
      [] a.type = "UPDATE_BLOCK" ->
            ("items" \in DOMAIN a.patch => UniqueIds(a.patch.items))
      [] OTHER -> TRUE

\* C8 as the spec states it: whatever actions were dispatched, note ids are
\* pairwise distinct, block ids are pairwise distinct within a note and item
\* ids are pairwise distinct within a checklist block.
C8_IdsUnique == AllUnique(notes)

\* C8 amended: an action applied to a state whose ids are unique within
\* their scope yields such a state, provided the ids the action itself
\* carries are pairwise distinct and unused in the scope they enter; the ids
\* the reducer generates never break uniqueness.
C8_UniquenessPreserved ==
    (steps > 0 /\ AllUnique(prev.notes) /\ CarriesFreshIds(last))
    => AllUnique(notes)

\* A generated id entered a state that already held generated ids.
C8_Witness ==
    /\ Did({"CREATE_NOTE", "ADD_CHECKLIST_ITEM", "REMOVE_BLOCK", "REMOVE_CHECKLIST_ITEM"})
    /\ prev.idCount > 0
    /\ idCount > prev.idCount
    /\ AllUnique(prev.notes)

\* ===================================================== keymap properties

Items == {"listItem", "taskItem"}

\* The depths of the item nodes around the selection.
ItemDepths == {d \in 1..Len(sel.path) : sel.path[d].name \in Items}

\* The innermost of them.
Innermost == CHOOSE d \in ItemDepths : \A e \in ItemDepths : e <= d

\* The cursor is in a text block without text whose innermost enclosing item
\* has exactly one child.
EmptyLeafItem ==
    /\ ParentName(sel.path) \in Textblocks
    /\ sel.textLength = 0
    /\ sel.path[Innermost].childCount = 1

\* C9: on Enter inside an item of its kind, a handler runs liftListItem
\* exactly when the cursor's parent is a text block of text length 0 and the
\* innermost enclosing item has exactly one child; otherwise it runs
\* splitListItem.
C9_EnterLiftsEmptyLeaf ==
    (handled.key = "Enter" /\ ItemDepths # {})
    => LET kind == sel.path[Innermost].name
       IN handled[kind] =
            IF EmptyLeafItem THEN Command("liftListItem", kind)
            ELSE Command("splitListItem", kind)

\* Enter was pressed in the empty paragraph of a nested item that holds
\* nothing else, and the handler of its kind lifted it.
C9_Witness ==
    /\ handled.key = "Enter"
    /\ Cardinality(ItemDepths) >= 2
    /\ EmptyLeafItem
    /\ handled[sel.path[Innermost].name].cmd = "liftListItem"

\* C10: a handler of kind K runs a command only when the innermost item
\* around the selection is of kind K and defers otherwise, so that at most
\* one of the two handlers acts on Enter, Tab or Shift-Tab.
C10_OnlyInnermostKindActs ==
    handled.key # "none" =>
        /\ \A kind \in Items :
              IF ItemDepths # {} /\ sel.path[Innermost].name = kind
              THEN handled[kind] # Defer /\ handled[kind].kind = kind
              ELSE handled[kind] = Defer
        /\ (handled.listItem = Defer \/ handled.taskItem = Defer)

\* A key was pressed in an item nested in an item of the other kind, and a
\* handler acted.
C10_Witness ==
    /\ handled.key # "none"
    /\ \E d \in ItemDepths : sel.path[d].name # sel.path[Innermost].name
    /\ (handled.listItem # Defer \/ handled.taskItem # Defer)

\* C11: with the cursor inside an item, the handler of the item's kind runs
\* sinkListItem on Tab and liftListItem on Shift-Tab, whether the item is
\* non-empty, an empty leaf or empty with a nested list.
C11_TabSinksShiftTabLifts ==
    (handled.key \in {"Tab", "Shift-Tab"} /\ ItemDepths # {})
    => LET kind == sel.path[Innermost].name
       IN handled[kind] =
            Command(IF handled.key = "Tab" THEN "sinkListItem" ELSE "liftListItem", kind)

\* Tab was pressed in the empty paragraph of a task item that holds nothing
\* else, where Enter would lift, and the handler sank the item.
C11_Witness ==
    /\ handled.key = "Tab"
    /\ ItemDepths # {}
    /\ sel.path[Innermost].name = "taskItem"
    /\ EmptyLeafItem
    /\ isAtEmptyListItem(sel)
    /\ handled.taskItem.cmd = "sinkListItem"

\* The notes without their updatedAt stamps.
Unstamped(ns) == [i \in 1..Len(ns) |-> [ns[i] EXCEPT !.updatedAt = 0]]

\* The state the reducer returns when the action just dispatched is
\* dispatched once more.
Again == editorReducer(State, last, clock, idCount)

\* C12: once TOGGLE_CHECKLIST_ITEM has been applied, applying it again with
\* the same noteId, blockId and itemId gives back the notes as they were
\* before the first: the item's checked value is restored, and its id and
\* content, the other items, the other blocks and the other notes are as
\* they were (the updatedAt stamps aside).
C12_ToggleTwiceRestores ==
    Did({"TOGGLE_CHECKLIST_ITEM"}) =>
        /\ Unstamped(Again.notes) = Unstamped(prev.notes)
        /\ Again.activeNoteId = prev.activeNoteId

\* TOGGLE_CHECKLIST_ITEM flipped an item of a checklist that has another item.
C12_Witness ==
    /\ Did({"TOGGLE_CHECKLIST_ITEM"})
    /\ \E i \in Targets : \E j \in 1..Len(prev.notes[i].blocks) :
          /\ prev.notes[i].blocks[j].id = last.blockId
          /\ prev.notes[i].blocks[j].type = "checklist"
          /\ Len(prev.notes[i].blocks[j].items) >= 2
          /\ \E m \in 1..Len(prev.notes[i].blocks[j].items) :
                /\ prev.notes[i].blocks[j].items[m].id = last.itemId
                /\ notes[i].blocks[j].items[m].checked
                      # prev.notes[i].blocks[j].items[m].checked
          /\ Unstamped(notes) # Unstamped(prev.notes)

\* C13: UPDATE_BLOCK, whatever its patch carries (an id or a type of its own
\* included), leaves the id and the type of the block it addresses as they
\* were, and so those of every block of the note.
C13_PatchKeepsIdAndType ==
    Did({"UPDATE_BLOCK"}) =>
        \A i \in Targets :
            /\ Len(notes[i].blocks) = Len(prev.notes[i].blocks)
            /\ \A j \in 1..Len(prev.notes[i].blocks) :
                  /\ notes[i].blocks[j].id = prev.notes[i].blocks[j].id
                  /\ notes[i].blocks[j].type = prev.notes[i].blocks[j].type

\* UPDATE_BLOCK merged, into a block of another type, a patch that carries
\* an id and a type of its own.
C13_Witness ==
    /\ Did({"UPDATE_BLOCK"})
    /\ "id" \in DOMAIN last.patch
    /\ "type" \in DOMAIN last.patch
    /\ \E i \in Targets : \E j \in 1..Len(prev.notes[i].blocks) :
          /\ prev.notes[i].blocks[j].id = last.blockId
          /\ last.patch.id # last.blockId
          /\ last.patch.type # prev.notes[i].blocks[j].type
          /\ notes[i].blocks[j] # prev.notes[i].blocks[j]

\* C14: CREATE_NOTE puts a new note at the head of the notes, the notes that
\* were there following it unchanged and in their order, and makes it the
\* active note; the new note has an id no earlier note has, exactly one
\* block, a paragraph whose content is one span of empty text, an empty
\* title, and createdAt equal to updatedAt.
C14_CreatePrepends ==
    Did({"CREATE_NOTE"}) =>
        /\ Len(notes) = Len(prev.notes) + 1
        /\ Tail(notes) = prev.notes
        /\ activeNoteId = notes[1].id
        /\ \A i \in 1..Len(prev.notes) : prev.notes[i].id # notes[1].id
        /\ Len(notes[1].blocks) = 1
        /\ notes[1].blocks[1].type = "paragraph"
        /\ Len(notes[1].blocks[1].content) = 1
        /\ notes[1].blocks[1].content[1].text = <<>>
        /\ notes[1].title = ""
        /\ notes[1].createdAt = notes[1].updatedAt

\* CREATE_NOTE added a note to a state that held notes, one of them active.
C14_Witness ==
    /\ Did({"CREATE_NOTE"})
    /\ Len(prev.notes) >= 2
    /\ prev.activeNoteId # Null
    /\ activeNoteId # prev.activeNoteId

\* C15 as the spec states it: the note CREATE_NOTE constructs has an empty
\* body.
C15_NewBodyEmpty == Did({"CREATE_NOTE"}) => notes[1].body = ""

\* C15 amended: the note CREATE_NOTE constructs has the body "<p></p>", the
\* serialized document of one empty paragraph.
C15_NewBodyEmptyParagraph == Did({"CREATE_NOTE"}) => notes[1].body = "<p></p>"

\* CREATE_NOTE constructed the first note of the run.
C15_Witness ==
    /\ Did({"CREATE_NOTE"})
    /\ prev.notes = <<>>
    /\ Len(notes) = 1
    /\ notes[1].createdAt = clock

\* The action types editorReducer has a case for.
RecognizedTypes == {"LOAD_NOTES", "CREATE_NOTE", "SET_ACTIVE_NOTE"} \cup NoteActions

\* C16: an action whose type is none of the recognized ones returns the
\* state as it was: the same notes with the same stamps, the same
\* activeNoteId.
C16_UnknownActionNoOp ==
    (steps > 0 /\ last.type \notin RecognizedTypes)
    => (notes = prev.notes /\ activeNoteId = prev.activeNoteId /\ clock = prev.clock)

\* An action of an unrecognized type was dispatched on a state that holds
\* notes, one of them active.
C16_Witness ==
    /\ steps > 0
    /\ last.type \notin RecognizedTypes
    /\ Len(prev.notes) >= 1
    /\ prev.activeNoteId # Null

\* In the note at position i the block MOVE_BLOCK names (the one block with
\* the id) is the first and the direction is up, or it is the last and the
\* direction is down.
AtBoundary(i) ==
    LET at == {j \in 1..Len(prev.notes[i].blocks) :
                  prev.notes[i].blocks[j].id = last.blockId}
    IN \/ last.direction = "up" /\ at = {1}
       \/ last.direction = "down" /\ at = {Len(prev.notes[i].blocks)}

\* C17: MOVE_BLOCK up on the first block of a note, or down on the last,
\* leaves the state as it was: the blocks in their order and updatedAt not
\* touched.
C17_MoveAtBoundaryNoOp ==
    (Did({"MOVE_BLOCK"}) /\ Targets # {} /\ \A i \in Targets : AtBoundary(i))
    => (notes = prev.notes /\ activeNoteId = prev.activeNoteId /\ clock = prev.clock)

\* MOVE_BLOCK was asked to move the last of several blocks down.
C17_Witness ==
    /\ Did({"MOVE_BLOCK"})
    /\ last.direction = "down"
    /\ \E i \in Targets : AtBoundary(i) /\ Len(prev.notes[i].blocks) >= 2

\* C18: UPDATE_BLOCK_CONTENT puts the given spans in the place of the content
\* of the paragraph or heading it addresses and keeps the block's other
\* fields (id, type, a heading's level); a list or checklist it addresses,
\* and every block it does not address, stays as it was.
C18_ContentReplaced ==
    Did({"UPDATE_BLOCK_CONTENT"}) =>
        \A i \in Targets :
            /\ Len(notes[i].blocks) = Len(prev.notes[i].blocks)
            /\ \A j \in 1..Len(prev.notes[i].blocks) :
                  LET b == prev.notes[i].blocks[j]
                      c == notes[i].blocks[j]
                  IN IF b.id = last.blockId /\ b.type \in {"paragraph", "heading"}
                     THEN /\ c.content = last.content
                          /\ DOMAIN c = DOMAIN b \cup {"content"}
                          /\ \A f \in DOMAIN b \ {"content"} : c[f] = b[f]
                     ELSE c = b

\* UPDATE_BLOCK_CONTENT gave new content to a heading that stands next to a
\* list.
C18_Witness ==
    /\ Did({"UPDATE_BLOCK_CONTENT"})
    /\ \E i \in Targets : \E j \in 1..Len(prev.notes[i].blocks) :
          /\ prev.notes[i].blocks[j].id = last.blockId
          /\ prev.notes[i].blocks[j].type = "heading"
          /\ prev.notes[i].blocks[j].content # last.content
          /\ notes[i].blocks[j].level = 2
          /\ \E m \in 1..Len(prev.notes[i].blocks) :
                prev.notes[i].blocks[m].type = "list"

\* The positions in seq of the elements with the id.
PositionsOf(seq, id) == {j \in 1..Len(seq) : seq[j].id = id}

\* after is before with x inserted so that it stands at position p.
InsertedAt(before, after, p, x) ==
    /\ Len(after) = Len(before) + 1
    /\ after[p] = x
    /\ \A j \in 1..Len(before) :
          IF j < p THEN after[j] = before[j] ELSE after[j + 1] = before[j]

\* Where an insertion after the one element with the id, or at the end when
\* there is none, puts the new element.
PlaceAfter(seq, id) ==
    IF PositionsOf(seq, id) = {} THEN Len(seq) + 1
    ELSE (CHOOSE j \in PositionsOf(seq, id) : TRUE) + 1

\* C19: ADD_BLOCK inserts its block right after the block with the id
\* afterBlockId, or at the end of the note's blocks when no block has that
\* id; the blocks that were there keep their order and the note has one
\* block more.
C19_AddBlockAfterAnchor ==
    Did({"ADD_BLOCK"}) =>
        \A i \in Targets :
            Cardinality(PositionsOf(prev.notes[i].blocks, last.afterBlockId)) <= 1
            => InsertedAt(prev.notes[i].blocks, notes[i].blocks,
                          PlaceAfter(prev.notes[i].blocks, last.afterBlockId),
                          last.block)

\* ADD_BLOCK inserted a block between two blocks.
C19_Witness ==
    /\ Did({"ADD_BLOCK"})
    /\ \E i \in Targets :
          /\ Len(prev.notes[i].blocks) >= 2
          /\ prev.notes[i].blocks[1].id = last.afterBlockId
          /\ notes[i].blocks[2] = last.block
          /\ notes[i].blocks[3] = prev.notes[i].blocks[2]

\* C20: ADD_CHECKLIST_ITEM inserts one item into the checklist it addresses,
\* right after the item with the id afterItemId, or at the end when no item
\* has that id; the new item is unchecked, its content is one span of empty
\* text and its id is that of no item that was there; the items that were
\* there are unchanged and keep their order.
C20_AddChecklistItemAfterAnchor ==
    Did({"ADD_CHECKLIST_ITEM"}) =>
        \A i \in Targets : \A j \in 1..Len(prev.notes[i].blocks) :
            LET b == prev.notes[i].blocks[j]
            IN (/\ b.id = last.blockId
                /\ b.type = "checklist"
                /\ Cardinality(PositionsOf(b.items, last.afterItemId)) <= 1)
               => LET items == notes[i].blocks[j].items
                      p == PlaceAfter(b.items, last.afterItemId)
                  IN /\ Len(items) = Len(b.items) + 1
                     /\ InsertedAt(b.items, items, p, items[p])
                     /\ DOMAIN items[p] = {"id", "checked", "content"}
                     /\ items[p].checked = FALSE
                     /\ Len(items[p].content) = 1
                     /\ items[p].content[1].text = <<>>
                     /\ PositionsOf(b.items, items[p].id) = {}

\* ADD_CHECKLIST_ITEM inserted an item between two items.
C20_Witness ==
    /\ Did({"ADD_CHECKLIST_ITEM"})
    /\ \E i \in Targets : \E j \in 1..Len(prev.notes[i].blocks) :
          /\ prev.notes[i].blocks[j].id = last.blockId
          /\ prev.notes[i].blocks[j].type = "checklist"
          /\ Len(prev.notes[i].blocks[j].items) >= 2
          /\ prev.notes[i].blocks[j].items[1].id = last.afterItemId
          /\ Len(notes[i].blocks[j].items) = 3
          /\ notes[i].blocks[j].items[3] = prev.notes[i].blocks[j].items[2]

\* ---------------------------------------------------------------- C21
\* The items of seq at the positions outside P, in their order.
DroppedAt(before, after, P) ==
    /\ Len(after) = Len(before) - Cardinality(P)
    /\ \A j \in (1..Len(before)) \ P :
          after[j - Cardinality({q \in P : q < j})] = before[j]

\* C21: REMOVE_CHECKLIST_ITEM on a checklist block takes out the item with
\* the given id and keeps the other items as they were, in their order; when
\* the removed item was the only one, the block ends with exactly one item,
\* unchecked, whose content is the single empty span and whose id is new.
C21_RemoveChecklistItem ==
    Did({"REMOVE_CHECKLIST_ITEM"}) =>
        \A i \in Targets : \A j \in 1..Len(prev.notes[i].blocks) :
            LET b == prev.notes[i].blocks[j]
                P == PositionsOf(b.items, last.itemId)
                items == notes[i].blocks[j].items
            IN (b.id = last.blockId /\ b.type = "checklist")
               => IF Cardinality(P) < Len(b.items)
                  THEN DroppedAt(b.items, items, P)
                  ELSE /\ Len(items) = 1
                       /\ DOMAIN items[1] = {"id", "checked", "content"}
                       /\ items[1].checked = FALSE
                       /\ Len(items[1].content) = 1
                       /\ items[1].content[1].text = <<>>
                       /\ PositionsOf(b.items, items[1].id) = {}
                       /\ \A i2 \in 1..Len(prev.notes) :
                             \A j2 \in 1..Len(prev.notes[i2].blocks) :
                                LET c == prev.notes[i2].blocks[j2]
                                IN c.type = "checklist"
                                     => PositionsOf(c.items, items[1].id) = {}

\* REMOVE_CHECKLIST_ITEM removed the only item of a checklist block, which
\* was checked and had text.
C21_Witness ==
    /\ Did({"REMOVE_CHECKLIST_ITEM"})
    /\ \E i \in Targets : \E j \in 1..Len(prev.notes[i].blocks) :
          /\ prev.notes[i].blocks[j].id = last.blockId
          /\ prev.notes[i].blocks[j].type = "checklist"
          /\ Len(prev.notes[i].blocks[j].items) = 1
          /\ prev.notes[i].blocks[j].items[1].id = last.itemId
          /\ prev.notes[i].blocks[j].items[1].checked
          /\ Len(notes[i].blocks[j].items) = 1
          /\ notes[i].blocks[j].items[1].id # last.itemId

\* ---------------------------------------------------------------- C22
\* The list blocks the last action addressed, as (note, block) positions.
ListTargets ==
    UNION {{<<i, j>> : j \in {j \in 1..Len(prev.notes[i].blocks) :
                                /\ prev.notes[i].blocks[j].id = last.blockId
                                /\ prev.notes[i].blocks[j].type = "list"}} :
           i \in Targets}

\* C22: ADD_LIST_ITEM on a list block inserts exactly one item, the single
\* empty span, right after position afterIndex; when afterIndex is no index
\* of the list (negative, or at or beyond its length) the item goes to the
\* end; the items that were there are unchanged and keep their order.
C22_AddListItemAfterIndex ==
    Did({"ADD_LIST_ITEM"}) =>
        \A ij \in ListTargets :
            LET before == prev.notes[ij[1]].blocks[ij[2]].items
                after == notes[ij[1]].blocks[ij[2]].items
                p == IF last.afterIndex >= 0 /\ last.afterIndex < Len(before)
                     THEN last.afterIndex + 2
                     ELSE Len(before) + 1
            IN /\ Len(after) = Len(before) + 1
               /\ InsertedAt(before, after, p, after[p])
               /\ Len(after[p]) = 1
               /\ after[p][1].text = <<>>

\* ---------------------------------------------------------------- C23
\* What REMOVE_LIST_ITEM is said to leave of the items before: they lose the
\* slot at itemIndex when there is one, and the single placeholder stands in
\* when nothing would be left.
RemovedAtIndex(before, after, itemIndex) ==
    LET P == {itemIndex + 1} \cap (1..Len(before))
    IN IF Len(before) = Cardinality(P)
       THEN /\ Len(after) = 1
            /\ Len(after[1]) = 1
            /\ after[1][1].text = <<>>
       ELSE DroppedAt(before, after, P)

\* C23: REMOVE_LIST_ITEM on a list block, with any integer itemIndex, leaves
\* the items it had with the element at itemIndex deleted if there is such
\* an element, and the single placeholder item when that would leave none.
\* Stated of the reducer applied to the present state.
C23_RemoveListItemAtIndex ==
    \A noteId \in NoteIdArgs : \A blockId \in BlockIdArgs(noteId) :
    \A itemIndex \in IndexArgs(noteId, blockId) :
        LET a == [type |-> "REMOVE_LIST_ITEM", noteId |-> noteId,
                  blockId |-> blockId, itemIndex |-> itemIndex]
            r == editorReducer(State, a, clock, idCount)
        IN \A i \in 1..Len(notes) : \A j \in 1..Len(notes[i].blocks) :
              (/\ notes[i].id = noteId
               /\ notes[i].blocks[j].id = blockId
               /\ notes[i].blocks[j].type = "list")
              => RemovedAtIndex(notes[i].blocks[j].items,
                                r.notes[i].blocks[j].items, itemIndex)

\* ---------------------------------------------------------------- C24
\* C24: UPDATE_LIST_ITEM on a list block puts the given content at itemIndex
\* and leaves the number of items and every other item as they were,
\* whatever itemIndex is.
C24_UpdateListItemInPlace ==
    Did({"UPDATE_LIST_ITEM"}) =>
        \A ij \in ListTargets :
            LET before == prev.notes[ij[1]].blocks[ij[2]].items
                after == notes[ij[1]].blocks[ij[2]].items
            IN /\ Len(after) = Len(before)
               /\ \A j \in 1..Len(before) :
                     after[j] = IF j = last.itemIndex + 1 THEN last.content
                                ELSE before[j]

\* ---------------------------------------------------------------- C29
\* The place MOVE_BLOCK finds the block at, 0 when the note has no such
\* block, and the place of the neighbour in the direction asked.
MovedFrom(i) ==
    IF PositionsOf(prev.notes[i].blocks, last.blockId) = {} THEN 0
    ELSE CHOOSE j \in PositionsOf(prev.notes[i].blocks, last.blockId) :
            \A j2 \in PositionsOf(prev.notes[i].blocks, last.blockId) : j <= j2
MovedTo(i) == IF last.direction = "up" THEN MovedFrom(i) - 1 ELSE MovedFrom(i) + 1

\* C29: MOVE_BLOCK on a block that has a neighbour in the direction given
\* swaps the two: every other place keeps its block, the blocks are the same
\* ones and as many; and after MOVE_BLOCK up, MOVE_BLOCK down of the same
\* block gives the order there was.
C29_MoveSwapsNeighbours ==
    Did({"MOVE_BLOCK"}) =>
        \A i \in Targets :
            LET before == prev.notes[i].blocks
                after == notes[i].blocks
                down == editorReducer(State, [last EXCEPT !.direction = "down"],
                                      clock, idCount)
            IN (MovedFrom(i) >= 1 /\ MovedTo(i) >= 1 /\ MovedTo(i) <= Len(before))
               => /\ Len(after) = Len(before)
                  /\ after[MovedTo(i)] = before[MovedFrom(i)]
                  /\ after[MovedFrom(i)] = before[MovedTo(i)]
                  /\ \A j \in 1..Len(before) :
                        j \notin {MovedFrom(i), MovedTo(i)} => after[j] = before[j]
                  /\ {after[j] : j \in 1..Len(after)} = {before[j] : j \in 1..Len(before)}
                  /\ last.direction = "up" => down.notes[i].blocks = before

\* MOVE_BLOCK up moved the last of three blocks to the middle.
C29_Witness ==
    /\ Did({"MOVE_BLOCK"})
    /\ last.direction = "up"
    /\ \E i \in Targets :
          /\ Len(prev.notes[i].blocks) = 3
          /\ MovedFrom(i) = 3
          /\ notes[i].blocks[2] = prev.notes[i].blocks[3]
          /\ notes[i].blocks[3] = prev.notes[i].blocks[2]
          /\ notes[i].blocks[1] = prev.notes[i].blocks[1]

\* ---------------------------------------------------------------- C28
\* An id as it reads when the ids drawn after the k-th are named by the
\* order in which they were drawn.
FreshAs(id, k) ==
    LET ds == {d \in 1..4 : id = generateId(k + d)}
    IN IF ds = {} THEN id ELSE "fresh" \o ToString(CHOOSE d \in ds : TRUE)

BlockButFresh(b, k) ==
    IF b.type = "checklist"
    THEN [b EXCEPT !.id = FreshAs(b.id, k),
                   !.items = [q \in 1..Len(b.items) |->
                                [b.items[q] EXCEPT !.id = FreshAs(b.items[q].id, k)]]]
    ELSE [b EXCEPT !.id = FreshAs(b.id, k)]

\* A state without its timestamps, the ids drawn after the k-th renamed.
ButStampsAndFresh(state, k) ==
    [activeNoteId |-> FreshAs(state.activeNoteId, k),
     notes |-> [i \in 1..Len(state.notes) |->
                  [state.notes[i] EXCEPT
                     !.id = FreshAs(state.notes[i].id, k),
                     !.createdAt = 0,
                     !.updatedAt = 0,
                     !.blocks = [j \in 1..Len(state.notes[i].blocks) |->
                                   BlockButFresh(state.notes[i].blocks[j], k)]]]]

\* The last action applied once more to the state it was applied to, when
\* Date.now() returns t and generateId() has returned k ids.
Reapplied(t, k) ==
    editorReducer([notes |-> prev.notes, activeNoteId |-> prev.activeNoteId],
                  last, t, k)

\* C28: two applications of one action to one state, the second at the
\* earliest or the latest reading of the clock and with other ids drawn, end
\* in states that are equal but for createdAt, updatedAt and the ids the
\* action generated.
C28_SameActionSameResult ==
    steps > 0 =>
        \A t \in {1, MaxClock} :
            LET k == prev.idCount + 4 IN
            ButStampsAndFresh(Reapplied(t, k), k)
                = ButStampsAndFresh(State, prev.idCount)

\* CREATE_NOTE was applied, and applied again at another time with other ids
\* drawn it gives a note with another id and another createdAt.
C28_Witness ==
    /\ Did({"CREATE_NOTE"})
    /\ \E t \in 1..MaxClock :
          /\ Reapplied(t, prev.idCount + 4).notes[1].id # notes[1].id
          /\ Reapplied(t, prev.idCount + 4).notes[1].createdAt # notes[1].createdAt
          /\ Reapplied(t, prev.idCount + 4).activeNoteId # activeNoteId

\* ---------------------------------------------------------------- C30
\* activeNoteId is null or the id of one of the notes.
ActiveIsNullOrANote(ns, active) ==
    active = Null \/ \E i \in 1..Len(ns) : ns[i].id = active

\* C30: when activeNoteId is null or the id of a note of state.notes before
\* an action, it is so after it, for every action but LOAD_NOTES and
\* SET_ACTIVE_NOTE; so it is in the initial state and after CREATE_NOTE,
\* DELETE_NOTE and content edits from there.
C30_ActiveStaysValid ==
    /\ steps = 0 => ActiveIsNullOrANote(notes, activeNoteId)
    /\ (/\ steps > 0
        /\ last.type \notin {"LOAD_NOTES", "SET_ACTIVE_NOTE"}
        /\ ActiveIsNullOrANote(prev.notes, prev.activeNoteId))
       => ActiveIsNullOrANote(notes, activeNoteId)

\* DELETE_NOTE deleted the active note while another note remained, and the
\* first remaining note is active.
C30_Witness ==
    /\ Did({"DELETE_NOTE"})
    /\ prev.activeNoteId = last.noteId
    /\ Len(notes) >= 1
    /\ Len(notes) < Len(prev.notes)
    /\ activeNoteId = notes[1].id

\* ---------------------------------------------------------------- C31
\* C31: an action addressed to one note (a title, body, block, list-item or
\* checklist-item action) leaves every note with another id as it was in
\* every field, leaves the notes as many and in the same order, and leaves
\* activeNoteId as it was.
C31_OtherNotesUntouched ==
    Did(ContentActions) =>
        /\ Len(notes) = Len(prev.notes)
        /\ \A i \in 1..Len(prev.notes) :
              /\ notes[i].id = prev.notes[i].id
              /\ prev.notes[i].id # last.noteId => notes[i] = prev.notes[i]
        /\ activeNoteId = prev.activeNoteId

\* A content action changed its note while another note stood before it and
\* another note was active.
C31_Witness ==
    /\ Did(ContentActions)
    /\ Len(prev.notes) >= 2
    /\ prev.notes[1].id # last.noteId
    /\ prev.activeNoteId = prev.notes[1].id
    /\ \E i \in Targets : notes[i] # prev.notes[i]

\* ---------------------------------------------------------------- C32
\* Every note was created no later than it was updated and no later than the
\* latest reading of the clock: so it is in the initial state, and where only
\* CREATE_NOTE has made notes.
StampsOrdered(ns, reading) ==
    \A i \in 1..Len(ns) :
        ns[i].createdAt <= ns[i].updatedAt /\ ns[i].createdAt <= reading

\* after is before with some notes left out, the others as they were.
RECURSIVE IsSubsequence(_, _)
IsSubsequence(after, before) ==
    IF after = <<>> THEN TRUE
    ELSE IF before = <<>> THEN FALSE
    ELSE IF Head(after) = Head(before)
         THEN IsSubsequence(Tail(after), Tail(before))
    ELSE IsSubsequence(after, Tail(before))

\* C32: no action but LOAD_NOTES changes the id or the createdAt of a note
\* that is there: a content action keeps both in every place, CREATE_NOTE
\* keeps the notes behind the new one, DELETE_NOTE keeps the notes it leaves,
\* any other action keeps the notes; and in the states reached without
\* LOAD_NOTES every note has createdAt <= updatedAt.
C32_IdAndCreatedAtKept ==
    /\ steps = 0 => StampsOrdered(notes, clock)
    /\ (steps > 0 /\ last.type # "LOAD_NOTES") =>
          /\ CASE last.type \in ContentActions ->
                    /\ Len(notes) = Len(prev.notes)
                    /\ \A i \in 1..Len(prev.notes) :
                          /\ notes[i].id = prev.notes[i].id
                          /\ notes[i].createdAt = prev.notes[i].createdAt
               [] last.type = "CREATE_NOTE" -> Tail(notes) = prev.notes
               [] last.type = "DELETE_NOTE" -> IsSubsequence(notes, prev.notes)
               [] OTHER -> notes = prev.notes
          /\ StampsOrdered(prev.notes, prev.clock) => StampsOrdered(notes, clock)

\* A note made by CREATE_NOTE in the initial state was edited at a later
\* time: it has its id and createdAt, and a later updatedAt.
C32_Witness ==
    /\ Did(ContentActions)
    /\ Len(prev.notes) = 1
    /\ prev.notes[1].id = generateId(1)
    /\ last.noteId = prev.notes[1].id
    /\ notes[1].createdAt = prev.notes[1].createdAt
    /\ notes[1].updatedAt > notes[1].createdAt

\* ---------------------------------------------------------------- C33
\* The cursor is in the text block without text of an item that has one other
\* child. The handlers read of the item its childCount and nothing of what
\* the other child holds, so the selection stands for every document at
\* this place: the one whose other child is a sub-list without any text is
\* among them.
EmptyItemWithSublist ==
    /\ ItemDepths # {}
    /\ Len(sel.path) = Innermost + 1
    /\ ParentName(sel.path) \in Textblocks
    /\ sel.textLength = 0
    /\ sel.path[Innermost].childCount = 2

\* C33 as the spec states it: on Enter in an item without text whose only
\* other child is a nested sub-list that is itself empty, the item counts as
\* one without a sub-list, and the decision is lift.
C33_EnterLiftsOverEmptySublist ==
    (handled.key = "Enter" /\ EmptyItemWithSublist)
    => handled[sel.path[Innermost].name]
          = Command("liftListItem", sel.path[Innermost].name)

\* C33: on Enter in an item without text whose only other child is a nested
\* sub-list, an empty one as well, the item counts as not empty, and the
\* decision is split.
C33_EnterSplitsOverSublist ==
    (handled.key = "Enter" /\ EmptyItemWithSublist)
    => handled[sel.path[Innermost].name]
          = Command("splitListItem", sel.path[Innermost].name)

\* Enter was pressed in the empty paragraph of a list item that has a second
\* child, and the list item's handler split the item.
C33_Witness ==
    /\ handled.key = "Enter"
    /\ EmptyItemWithSublist
    /\ sel.path[Innermost].name = "listItem"
    /\ sel.path[Len(sel.path)].name = "paragraph"
    /\ handled.listItem.cmd = "splitListItem"

\* ====================================================== codec properties

\* ---------------------------------------------------------------- C25
\* C25: for every string s, spansToText(textToSpans(s)) is s.
C25_TextRoundTrip ==
    output.op = "spansToText" => output.text = input.text

\* A two-character text with characters that markup escapes went through
\* textToSpans and spansToText.
C25_Witness ==
    /\ output.op = "spansToText"
    /\ input.text = <<"<", "&">>
    /\ output.text = <<"<", "&">>

\* ---------------------------------------------------------------- C26
\* A paragraph whose content is one span of empty text.
IsBlankParagraph(b) ==
    /\ b.type = "paragraph"
    /\ Len(b.content) = 1
    /\ b.content[1].text = <<>>

\* C26: blocksToHtml of no blocks, and of the one paragraph whose content is
\* the single empty span, is the markup of the empty document, '<p></p>'.
C26_EmptyDocumentMarkup ==
    (/\ output.op = "blocksToHtml"
     /\ \/ input.blocks = <<>>
        \/ Len(input.blocks) = 1 /\ IsBlankParagraph(input.blocks[1]))
    => output.html = <<"<", "p", ">", "<", "/", "p", ">">>

\* blocksToHtml converted the one blank paragraph.
C26_Witness ==
    /\ output.op = "blocksToHtml"
    /\ Len(input.blocks) = 1
    /\ IsBlankParagraph(input.blocks[1])
    /\ Len(output.html) = 7

\* ---------------------------------------------------------------- C27
\* What a reader of markup makes of it: a tag runs from '<' to the next '>',
\* and the rest is text, in which an entity stands for its character.
TagEnd(html, k) ==
    LET ends == {j \in k..Len(html) : html[j] = ">"}
    IN IF ends = {} THEN Len(html) ELSE CHOOSE j \in ends : \A j2 \in ends : j <= j2

RECURSIVE OutsideTags(_, _)
OutsideTags(html, k) ==
    IF k > Len(html) THEN <<>>
    ELSE IF html[k] = "<" THEN OutsideTags(html, TagEnd(html, k) + 1)
    ELSE <<html[k]>> \o OutsideTags(html, k + 1)

RECURSIVE TagsOf(_, _)
TagsOf(html, k) ==
    IF k > Len(html) THEN {}
    ELSE IF html[k] = "<"
         THEN {SubSeq(html, k, TagEnd(html, k))} \cup TagsOf(html, TagEnd(html, k) + 1)
    ELSE TagsOf(html, k + 1)

Entities ==
    {[char |-> "&", code |-> <<"&", "a", "m", "p", ";">>],
     [char |-> "<", code |-> <<"&", "l", "t", ";">>],
     [char |-> ">", code |-> <<"&", "g", "t", ";">>],
     [char |-> "\"", code |-> <<"&", "q", "u", "o", "t", ";">>]}

EntitiesAt(text, k) ==
    {e \in Entities : /\ k + Len(e.code) - 1 <= Len(text)
                      /\ SubSeq(text, k, k + Len(e.code) - 1) = e.code}

RECURSIVE Decoded(_, _, _)
\* The text with every entity read as its character (keep = TRUE) or left
\* out (keep = FALSE).
Decoded(text, k, keep) ==
    IF k > Len(text) THEN <<>>
    ELSE IF EntitiesAt(text, k) # {}
         THEN LET e == CHOOSE e \in EntitiesAt(text, k) : TRUE
              IN (IF keep THEN <<e.char>> ELSE <<>>)
                    \o Decoded(text, k + Len(e.code), keep)
    ELSE <<text[k]>> \o Decoded(text, k + 1, keep)

\* The tags the codec writes.
CodecTags ==
    {<<"<">> \o t \o <<">">> :
        t \in {<<"p">>, <<"/", "p">>, <<"h", "1">>, <<"/", "h", "1">>,
               <<"h", "2">>, <<"/", "h", "2">>, <<"h", "3">>, <<"/", "h", "3">>,
               <<"u", "l">>, <<"/", "u", "l">>, <<"o", "l">>, <<"/", "o", "l">>,
               <<"l", "i">>, <<"/", "l", "i">>, <<"e", "m">>, <<"/", "e", "m">>,
               <<"u">>, <<"/", "u">>, <<"d", "i", "v">>, <<"/", "d", "i", "v">>,
               <<"s", "p", "a", "n">>, <<"/", "s", "p", "a", "n">>,
               <<"l", "a", "b", "e", "l">>, <<"/", "l", "a", "b", "e", "l">>,
               <<"s", "t", "r", "o", "n", "g">>, <<"/", "s", "t", "r", "o", "n", "g">>}}
    \cup {Chars(t) : t \in {"<ul data-type=\"taskList\">",
                            "<li data-type=\"taskItem\" data-checked=\"true\">",
                            "<li data-type=\"taskItem\" data-checked=\"false\">",
                            "<input type=\"checkbox\">",
                            "<input type=\"checkbox\" checked=\"checked\">"}}

\* The span texts of a block, in the order of the document.
TextOf(b) ==
    CASE b.type \in {"paragraph", "heading"} ->
            join([i \in 1..Len(b.content) |-> b.content[i].text])
      [] b.type = "list" ->
            join([i \in 1..Len(b.items) |->
                    join([q \in 1..Len(b.items[i]) |-> b.items[i][q].text])])
      [] b.type = "checklist" ->
            join([i \in 1..Len(b.items) |->
                    join([q \in 1..Len(b.items[i].content) |->
                            b.items[i].content[q].text])])

Special == {"&", "<", ">", "\""}

\* C27: for every block sequence, each '&', '<', '>' and '"' of a span text
\* is in the output of blocksToHtml as its entity and nothing else, escaped
\* once: read back, the text outside the tags is the span texts; outside the
\* entities it has none of the four characters; and every tag of the output
\* is one the codec writes.
C27_TextEscapedOnce ==
    output.op = "blocksToHtml" =>
        LET text == OutsideTags(output.html, 1)
            rest == Decoded(text, 1, FALSE)
        IN /\ Decoded(text, 1, TRUE) =
                 join([i \in 1..Len(input.blocks) |-> TextOf(input.blocks[i])])
           /\ \A i \in 1..Len(rest) : rest[i] \notin Special
           /\ TagsOf(output.html, 1) \subseteq CodecTags

\* blocksToHtml converted a paragraph whose one span, with all three flags,
\* has the text '&<'.
C27_Witness ==
    /\ output.op = "blocksToHtml"
    /\ Len(input.blocks) = 1
    /\ input.blocks[1].type = "paragraph"
    /\ Len(input.blocks[1].content) = 1
    /\ input.blocks[1].content[1].text = <<"&", "<">>
    /\ input.blocks[1].content[1].underline
    /\ output.html = <<"<", "p", ">", "<", "u", ">", "<", "e", "m", ">",
                       "<", "s", "t", "r", "o", "n", "g", ">",
                       "&", "a", "m", "p", ";", "&", "l", "t", ";",
                       "<", "/", "s", "t", "r", "o", "n", "g", ">",
                       "<", "/", "e", "m", ">", "<", "/", "u", ">",
                       "<", "/", "p", ">">>

\* C37: the body shown for a note is the note's own body whenever that is
\* set and not the empty string; the blocks are migrated with blocksToHtml
\* only when the body is empty or missing and there is at least one block;
\* in every other case the result is '<p></p>'. The resolved body is never
\* the empty string.
C37_ResolvedBody ==
    output.op = "resolveBody" =>
       LET note == input.note
           hasBody == note.body.given /\ note.body.value # <<>>
           hasBlocks == note.blocks.given /\ note.blocks.value # <<>>
       IN /\ hasBody => output.html = note.body.value
          /\ (~hasBody /\ hasBlocks) => output.html = blocksToHtml(note.blocks.value)
          /\ (~hasBody /\ ~hasBlocks) => output.html = <<"<", "p", ">", "<", "/", "p", ">">>
          /\ output.html # <<>>

\* A note with an empty body and no block: the last resort.
C37_Witness ==
    /\ output.op = "resolveBody"
    /\ input.note.body = [given |-> TRUE, value |-> <<>>]
    /\ input.note.blocks = [given |-> TRUE, value |-> <<>>]
    /\ Len(output.html) = 7

\* ================================================= application properties

\* What an event dispatched, by type.
Dispatched(type) ==
    {i \in 1..Len(event.dispatched) : event.dispatched[i].type = type}

\* C34: on mount, when storage holds a non-empty note list, the provider
\* dispatches LOAD_NOTES with the stored notes and then SET_ACTIVE_NOTE with
\* the first stored note's id, and with both applied state.notes is the
\* stored list and activeNoteId that id; when storage holds no notes
\* nothing is dispatched and the state is the initial state. Hydration runs
\* at most once: no later event, a second run of the mount effects
\* included, dispatches LOAD_NOTES.
C34_HydratesOnceInOrder ==
    /\ event.name = "Mount" =>
          IF event.stored.raw = "array" /\ Len(event.stored.notes) > 0
          THEN /\ event.dispatched =
                     <<[type |-> "LOAD_NOTES", notes |-> event.stored.notes],
                       [type |-> "SET_ACTIVE_NOTE", noteId |-> event.stored.notes[1].id]>>
               /\ notes = event.stored.notes
               /\ activeNoteId = event.stored.notes[1].id
          ELSE /\ event.dispatched = <<>>
               /\ notes = <<>>
               /\ activeNoteId = Null
    /\ event.name \notin {"none", "Mount"} => Dispatched("LOAD_NOTES") = {}

\* The mount effects ran twice over stored notes.
C34_Witness ==
    /\ event.name = "RerunEffects"
    /\ Len(notes) = 2
    /\ activeNoteId = "n1"
    /\ refs.hydrated

\* C35: the persist effect never writes the empty note list of before
\* hydration to storage: the mount event saves nothing, every save writes
\* the whole state.notes of the render it belongs to in place of what was
\* stored, and when notes were stored before the event, storage holds an
\* empty list after it only if state.notes is empty too.
C35_NeverSavesInitialNotes ==
    event.name # "none" =>
       /\ (event.name = "Mount" => event.saved = <<>>)
       /\ \A i \in 1..Len(event.saved) :
              /\ event.saved[i] = rendered.notes
              /\ storage = [raw |-> "array", notes |-> stringify(rendered.notes)]
       /\ (Len(loadNotes(event.stored)) > 0 /\ loadNotes(storage) = <<>>) => notes = <<>>

\* C36: every UPDATE_BODY is dispatched by the editor's update callback and
\* carries the id of the note active when the callback runs, which is the
\* note whose body the editor holds; it leaves the body of every other note,
\* a previously active one included, as it was.
C36_BodyUpdateGoesToActiveNote ==
    event.name # "none" =>
       \A i \in Dispatched("UPDATE_BODY") :
          /\ event.name = "BodyUpdate"
          /\ event.dispatched[i].noteId = event.before.activeNoteId
          /\ event.dispatched[i].noteId = event.editor
          /\ Len(notes) = Len(event.before.notes)
          /\ \A j \in 1..Len(notes) :
                 event.before.notes[j].id # event.before.activeNoteId
                    => notes[j] = event.before.notes[j]

\* An edit after the active note changed from the one hydration chose: the
\* previously active note is still listed and the edit went to the new one.
C36_Witness ==
    /\ event.name = "BodyUpdate"
    /\ Dispatched("UPDATE_BODY") = {1}
    /\ Len(loadNotes(event.stored)) > 0
    /\ event.dispatched[1].noteId # loadNotes(event.stored)[1].id
    /\ \E j \in 1..Len(notes) :
           /\ notes[j].id = loadNotes(event.stored)[1].id
           /\ notes[j].body = ""
    /\ \E j \in 1..Len(notes) :
           /\ notes[j].id = event.dispatched[1].noteId
           /\ notes[j].body = "<p>b</p>"

\* C38: DELETE_NOTE is dispatched only by a confirm that follows a delete
\* request with no close or confirm in between, alone, and with the noteId
\* of the most recent request; a close clears the pending target and
\* dispatches nothing; a confirm with no pending target dispatches nothing;
\* after a confirm no target is pending.
C38_DeleteOnlyOnConfirmedRequest ==
    event.name # "none" =>
       /\ Dispatched("DELETE_NOTE") # {} =>
              /\ event.name = "DeleteConfirm"
              /\ event.asked.open
              /\ event.dispatched =
                     <<[type |-> "DELETE_NOTE", noteId |-> event.asked.noteId]>>
       /\ event.name = "DeleteClose" =>
              event.dispatched = <<>> /\ deleteTarget = NoTarget
       /\ (event.name = "DeleteConfirm" /\ ~event.target.pending) =>
              event.dispatched = <<>>
       /\ event.name = "DeleteConfirm" => deleteTarget = NoTarget

\* A confirmed request: the note asked for is gone.
C38_Witness ==
    /\ event.name = "DeleteConfirm"
    /\ event.asked.open
    /\ Dispatched("DELETE_NOTE") = {1}
    /\ \E j \in 1..Len(event.before.notes) :
           event.before.notes[j].id = event.asked.noteId
    /\ \A j \in 1..Len(notes) : notes[j].id # event.asked.noteId

====
